---------------------------- MODULE Spec2Model ----------------------------
(***************************************************************************)
(* A model of the OSM layers downloader: the OSM-element to GeoJSON        *)
(* conversion (osm_api.py), the print-frame builder (frame_builder.py),    *)
(* the SVG exporter with its page projection (svg_exporter.py) and the     *)
(* download controls of the dialog with its worker threads                 *)
(* (osm_downloader_dialog.py).                                             *)
(*                                                                         *)
(* Numbers.  The program computes in Python floats.  The model computes    *)
(* in exact rationals <<n, d>> (d > 0, lowest terms), so a property that   *)
(* holds here holds of the code up to floating-point rounding, and a       *)
(* property that fails here by a margin fails in the code too.             *)
(* Strings whose characters the code inspects (substring tests, lower(),   *)
(* strip()) are sequences of one-character strings.                        *)
(***************************************************************************)
EXTENDS Integers, Sequences, FiniteSets, TLC

VARIABLES
    self,               \* the SVGExporter instance (its attributes), or NoObject
    layout0,            \* history: the attributes as __init__ left them
    memo,               \* history: one earlier projection <<lon, lat, x, y>>, or NoValue
    last,               \* history: the latest projection <<lon, lat, x, y>>, or NoValue
    frame_call,         \* FrameBuilder.create_frame_geometry: the arguments of the last call
    frame_result,       \* ... and what the call produced
    osm_call,           \* OSMAPIHandler.osm_to_geojson: the arguments of the last call
    osm_result,         \* ... and what the call produced
    download_call,      \* DownloadWorker.run: the config and the response of the last pass
    download_result,    \* ... what download_feature produced
    labels_result,      \* ... and what create_labels_geojson produced, or NoValue
    labels_call,        \* OSMAPIHandler.create_labels_geojson: the argument of the last call
    labels_made,        \* ... and what the call produced
    download_btn,       \* OSMDownloaderDialog: download_btn.isEnabled()
    search_btn,         \* dialog: search_btn.isEnabled()
    use_canvas_extent,  \* dialog: use_canvas_extent.isChecked()
    dialog_bbox,        \* dialog: self.bbox, None or the bbox found
    selected_items,     \* dialog: feature_list.selectedItems(), as configs
    downloaded_layers,  \* dialog: self.downloaded_layers
    project_layers,     \* QgsProject.instance(): the downloaded layers it holds
    workers,            \* the DownloadWorker threads started so far
    events,             \* the signals queued for the dialog's thread
    pc,                 \* export_layers_to_svg: "idle", "layers", "written", "raised"
    layers,             \* export: the layers handed to the call
    li,                 \* export: index of the layer being processed
    fi,                 \* export: index of the next feature of that layer
    features_group,     \* export: the <g id="features"> element, a sequence of layer groups
    labels_group,       \* export: the <g id="labels"> element, a sequence of text elements
    used_label_names,   \* export: the set of label texts already emitted
    output_file,        \* export: what tree.write put on disk, or NoValue
    exports             \* number of export calls made so far

vars == <<self, layout0, memo, last, frame_call, frame_result, osm_call, osm_result,
          download_call, download_result, labels_result, labels_call, labels_made,
          download_btn, search_btn, use_canvas_extent, dialog_bbox, selected_items,
          downloaded_layers, project_layers, workers, events,
          pc, layers, li, fi, features_group, labels_group, used_label_names,
          output_file, exports>>

\* the state of a call of create_labels_geojson
labelVars == <<labels_call, labels_made>>

\* the state of the dialog and its worker threads
dialogVars == <<download_btn, search_btn, use_canvas_extent, dialog_bbox,
                selected_items, downloaded_layers, project_layers, workers, events>>

\* Bounds of the model
MaxExports == 2         \* export calls in one behaviour
MaxDownloads == 2       \* downloads started in one behaviour

NoObject == [none |-> "object"]
NoValue == [none |-> "value"]

\* An assignment "name = value" followed by the statements F that use the name:
\* the value is computed once, then F runs with it.
With(value, F(_)) == CHOOSE r \in {F(x) : x \in {value}} : TRUE

-----------------------------------------------------------------------------
(* Exact rational arithmetic standing for Python float arithmetic.          *)

Abs(x) == IF x < 0 THEN -x ELSE x

RECURSIVE GCD(_, _)
GCD(a, b) == IF b = 0 THEN a ELSE GCD(b, a % b)

LCM(a, b) == (a \div GCD(a, b)) * b

\* n/d in lowest terms with a positive denominator (d # 0)
Norm(n, d) ==
    LET s == IF d < 0 THEN -1 ELSE 1
        g == GCD(Abs(n), Abs(d))
    IN  <<(s * n) \div g, (s * d) \div g>>

R(n) == <<n, 1>>
RNeg(a) == <<-a[1], a[2]>>
RAdd(a, b) ==
    LET l == LCM(a[2], b[2])
    IN  Norm(a[1] * (l \div a[2]) + b[1] * (l \div b[2]), l)
RSub(a, b) == RAdd(a, RNeg(b))
RMul(a, b) ==
    LET g1 == GCD(Abs(a[1]), b[2])
        g2 == GCD(Abs(b[1]), a[2])
    IN  Norm((a[1] \div g1) * (b[1] \div g2), (a[2] \div g2) * (b[2] \div g1))
\* a / b for b # 0
RDiv(a, b) == RMul(a, IF b[1] > 0 THEN <<b[2], b[1]>> ELSE <<-b[2], -b[1]>>)
RLess(a, b) ==
    LET l == LCM(a[2], b[2])
    IN  a[1] * (l \div a[2]) < b[1] * (l \div b[2])
RLeq(a, b) == a = b \/ RLess(a, b)
RZero(a) == a[1] = 0
RPos(a) == a[1] > 0
RMax(a, b) == IF RLess(a, b) THEN b ELSE a
RMin(a, b) == IF RLess(b, a) THEN b ELSE a

\* math.cos(math.radians(deg)) at the latitudes where the cosine is rational
CosDeg(deg) ==
    CASE deg = R(0) -> R(1)
      [] deg = R(60) -> <<1, 2>>
      [] deg = R(-60) -> <<1, 2>>
      [] deg = R(90) -> R(0)
      [] deg = R(-90) -> R(0)


-----------------------------------------------------------------------------
(* svg_exporter.py: SVGExporter.__init__ and the two coordinate methods.    *)

\* class attribute PAPER_SIZES: name -> (width_mm, height_mm)
PAPER_SIZES == [A4 |-> <<210, 297>>, A3 |-> <<297, 420>>,
                Letter |-> <<216, 279>>, Tabloid |-> <<279, 432>>]

\* A faulty fallback, to 'Letter'
ResolvePaperSize_Letter(paper_size) ==
    IF paper_size \notin DOMAIN PAPER_SIZES THEN "Letter" ELSE paper_size

\* "if paper_size not in self.PAPER_SIZES: paper_size = 'A4'"
ResolvePaperSize(paper_size) ==
    IF paper_size \notin DOMAIN PAPER_SIZES THEN "A4" ELSE paper_size

\* mm_to_px = 3.7795
mm_to_px == <<37795, 10000>>

IntMax(a, b) == IF a >= b THEN a ELSE b
IntMin(a, b) == IF a <= b THEN a ELSE b

ZeroDivisionError == [raised |-> "ZeroDivisionError"]

\* The attributes __init__ assigns, in the order of the source; bbox_aspect and
\* corrected_lon_range are locals of __init__ and are not kept.
Attributes(bbox, margin_mm, lon_range, lat_range, page_width_mm, page_height_mm, scale, x_offset, y_offset) ==
    [south |-> bbox[1], west |-> bbox[2], north |-> bbox[3], east |-> bbox[4],
     margin_mm |-> margin_mm, lon_range |-> lon_range, lat_range |-> lat_range,
     page_width_mm |-> page_width_mm, page_height_mm |-> page_height_mm,
     content_width_mm |-> page_width_mm - (2 * margin_mm),
     content_height_mm |-> page_height_mm - (2 * margin_mm),
     width |-> RMul(R(page_width_mm), mm_to_px),
     height |-> RMul(R(page_height_mm), mm_to_px),
     margin_px |-> RMul(R(margin_mm), mm_to_px),
     draw_width |-> RMul(R(page_width_mm - (2 * margin_mm)), mm_to_px),
     draw_height |-> RMul(R(page_height_mm - (2 * margin_mm)), mm_to_px),
     scale |-> scale, x_offset |-> x_offset, y_offset |-> y_offset]

\* A faulty fit, which takes the width for the limiting factor whatever the aspects
Fit_WidthOnly(bbox, margin_mm, lon_range, lat_range, page_width_mm, page_height_mm, corrected_lon_range, bbox_aspect, margin_px, draw_width, draw_height) ==
    IF RZero(corrected_lon_range) THEN ZeroDivisionError
    ELSE Attributes(bbox, margin_mm, lon_range, lat_range, page_width_mm,
                    page_height_mm, RDiv(draw_width, corrected_lon_range),
                    margin_px, margin_px)

\* "if content_aspect < bbox_aspect: ... else: ...": scale and offsets, given the
\* page quantities.  A float division by 0.0 raises ZeroDivisionError.
Fit(bbox, margin_mm, lon_range, lat_range, page_width_mm, page_height_mm, corrected_lon_range, bbox_aspect, margin_px, draw_width, draw_height) ==
    IF RZero(draw_height) THEN ZeroDivisionError
    ELSE IF RLess(RDiv(draw_width, draw_height), bbox_aspect)
    THEN \* width is the limiting factor
         IF RZero(corrected_lon_range) THEN ZeroDivisionError
         ELSE With(RDiv(draw_width, corrected_lon_range), LAMBDA scale :
              With(RMul(lat_range, scale), LAMBDA actual_height :
                  Attributes(bbox, margin_mm, lon_range, lat_range,
                      page_width_mm, page_height_mm, scale, margin_px,
                      RAdd(margin_px,
                           RDiv(RSub(draw_height, actual_height), R(2))))))
    ELSE \* height is the limiting factor
         IF RZero(lat_range) THEN ZeroDivisionError
         ELSE With(RDiv(draw_height, lat_range), LAMBDA scale :
              With(RMul(corrected_lon_range, scale), LAMBDA actual_width :
                  Attributes(bbox, margin_mm, lon_range, lat_range,
                      page_width_mm, page_height_mm, scale,
                      RAdd(margin_px,
                           RDiv(RSub(draw_width, actual_width), R(2))),
                      margin_px)))

\* The page of __init__ once the orientation is settled
Page(bbox, margin_mm, lon_range, lat_range, corrected_lon_range, bbox_aspect, paper, orient) ==
    With(IF orient = "landscape" THEN IntMax(paper[1], paper[2])
         ELSE IntMin(paper[1], paper[2]), LAMBDA page_width_mm :
    With(IF orient = "landscape" THEN IntMin(paper[1], paper[2])
         ELSE IntMax(paper[1], paper[2]), LAMBDA page_height_mm :
        Fit(bbox, margin_mm, lon_range, lat_range, page_width_mm, page_height_mm,
            corrected_lon_range, bbox_aspect,
            RMul(R(margin_mm), mm_to_px),
            RMul(R(page_width_mm - (2 * margin_mm)), mm_to_px),
            RMul(R(page_height_mm - (2 * margin_mm)), mm_to_px))))

\* SVGExporter(bbox, paper_size, orientation, margin_mm): the new instance, or the
\* ZeroDivisionError a float division by 0.0 raises out of the constructor.
\* bbox = <<south, west, north, east>> (rationals), margin_mm an integer.
SVGExporter(bbox, paper_size, orientation, margin_mm) ==
    With(RSub(bbox[4], bbox[2]), LAMBDA lon_range :
    With(RSub(bbox[3], bbox[1]), LAMBDA lat_range :
    With(CosDeg(RDiv(RAdd(bbox[3], bbox[1]), R(2))), LAMBDA lat_correction :
    With(RMul(lon_range, lat_correction), LAMBDA corrected_lon_range :
    With(IF RPos(lat_range) THEN RDiv(corrected_lon_range, lat_range) ELSE R(1),
         LAMBDA bbox_aspect :
        Page(bbox, margin_mm, lon_range, lat_range, corrected_lon_range,
             bbox_aspect, PAPER_SIZES[ResolvePaperSize(paper_size)],
             IF orientation = "auto"
             THEN (IF RLess(R(1), bbox_aspect) THEN "landscape" ELSE "portrait")
             ELSE orientation))))))

IsExporter(obj) == "scale" \in DOMAIN obj

\* A faulty lon_to_x, which moves the instance's x_offset at each call
lon_to_x_Drifting(obj, lon) ==
    [ret |-> RAdd(obj.x_offset,
                  RMul(IF RPos(obj.lon_range)
                       THEN RDiv(RSub(lon, obj.west), obj.lon_range) ELSE R(0),
                       obj.draw_width)),
     self |-> [obj EXCEPT !.x_offset = RAdd(@, R(1))]]

\* lon_to_x(self, lon): the value returned, and the instance as the call leaves it
\* (the method assigns to no attribute).
lon_to_x(obj, lon) ==
    LET normalized_x == IF RPos(obj.lon_range)
                        THEN RDiv(RSub(lon, obj.west), obj.lon_range) ELSE R(0)
    IN  [ret |-> RAdd(obj.x_offset, RMul(normalized_x, obj.draw_width)),
         self |-> obj]

\* lat_to_y(self, lat), likewise
lat_to_y(obj, lat) ==
    LET normalized_y == IF RPos(obj.lat_range)
                        THEN RDiv(RSub(obj.north, lat), obj.lat_range) ELSE R(0)
    IN  [ret |-> RAdd(obj.y_offset, RMul(normalized_y, obj.draw_height)),
         self |-> obj]

-----------------------------------------------------------------------------
(* The inputs the projector is exercised with.                              *)

\* Bounding boxes <<south, west, north, east>>: wide, narrow and square ones at
\* the equator and at 60 degrees, one whose corrected aspect equals the content
\* aspect of a margin-less A4 portrait page (70/99), and three degenerate ones.
ValidBBoxes ==
    { <<R(-1), R(-1), R(1), R(1)>>,
      <<R(59), R(10), R(61), R(12)>>,
      <<R(-1), R(-81), R(1), R(-77)>>,
      <<R(58), R(0), R(62), R(1)>>,
      <<<<-99, 2>>, R(0), <<99, 2>>, R(70)>> }

DegenerateBBoxes ==
    { <<R(0), R(0), R(0), R(0)>>,
      <<R(60), R(10), R(60), R(12)>>,
      <<R(-1), R(5), R(1), R(5)>> }

BBoxes == ValidBBoxes \cup DegenerateBBoxes

PaperNames == {"A4", "A3", "Letter", "Tabloid", "Foo"}
Orientations == {"portrait", "landscape", "auto"}
\* the export dialog's margin spin box ranges over 0..50 mm, default 10
Margins == {0, 10, 50}

ValidBBox(bbox) == RLess(bbox[1], bbox[3]) /\ RLess(bbox[2], bbox[4])

\* the points projected: the corners of the instance's own bbox
Corners(obj) ==
    IF "west" \in DOMAIN obj
    THEN {obj.west, obj.east} \X {obj.south, obj.north}
    ELSE {}

-----------------------------------------------------------------------------
(* Calls on the exporter outside an export.                                 *)

ExportVarsIdle ==
    /\ pc = "idle"
    /\ UNCHANGED <<pc, layers, li, fi, features_group, labels_group,
                   used_label_names, output_file, exports>>

\* exporter = SVGExporter(bbox, paper_size, orientation, margin_mm): a behaviour
\* follows one instance from its construction.
Construct(bbox, paper_size, orientation, margin_mm) ==
    /\ self = NoObject
    /\ ExportVarsIdle
    /\ self' = SVGExporter(bbox, paper_size, orientation, margin_mm)
    /\ layout0' = [args |-> <<bbox, paper_size, orientation, margin_mm>>,
                   attrs |-> self']
    /\ memo' = NoValue
    /\ last' = NoValue
    /\ UNCHANGED <<frame_call, frame_result, osm_call, download_call, download_result,
                   labels_result, osm_result, labelVars, dialogVars>>

\* x = exporter.lon_to_x(lon); y = exporter.lat_to_y(lat)
\* The history either keeps the previous projection as memo or leaves memo alone.
Project(lon, lat, keep) ==
    /\ ExportVarsIdle
    /\ IsExporter(self)
    /\ \E cx \in {lon_to_x(self, lon)} :
           \E cy \in {lat_to_y(cx.self, lat)} :
               /\ self' = cy.self
               /\ last' = <<lon, lat, cx.ret, cy.ret>>
    /\ memo' = IF keep /\ last # NoValue THEN last ELSE memo
    /\ UNCHANGED <<layout0, frame_call, frame_result, osm_call, download_call, download_result,
                   labels_result, osm_result, labelVars, dialogVars>>


-----------------------------------------------------------------------------
(* Python strings as sequences of characters.                               *)

UpperAlpha == <<"A", "B", "C", "D", "E", "F", "G", "H", "I", "J", "K", "L", "M",
                "N", "O", "P", "Q", "R", "S", "T", "U", "V", "W", "X", "Y", "Z">>
LowerAlpha == <<"a", "b", "c", "d", "e", "f", "g", "h", "i", "j", "k", "l", "m",
                "n", "o", "p", "q", "r", "s", "t", "u", "v", "w", "x", "y", "z">>

\* str.lower()
LowerChar(c) ==
    IF \E i \in 1..26 : UpperAlpha[i] = c
    THEN LowerAlpha[CHOOSE i \in 1..26 : UpperAlpha[i] = c]
    ELSE c
Lower(str) == [i \in 1..Len(str) |-> LowerChar(str[i])]

\* needle in hay
Contains(needle, hay) ==
    \E i \in 1..(Len(hay) - Len(needle) + 1) :
        SubSeq(hay, i, i + Len(needle) - 1) = needle

\* str.strip(): leading and trailing blanks removed
RECURSIVE LStrip(_)
LStrip(str) ==
    IF str # <<>> /\ Head(str) = " " THEN LStrip(Tail(str)) ELSE str
RECURSIVE RStrip(_)
RStrip(str) ==
    IF str # <<>> /\ str[Len(str)] = " "
    THEN RStrip(SubSeq(str, 1, Len(str) - 1)) ELSE str
Strip(str) == RStrip(LStrip(str))

\* layer.name().replace(' ', '_').replace('&', 'and')
RECURSIVE LayerId(_)
LayerId(str) ==
    IF str = <<>> THEN <<>>
    ELSE (CASE Head(str) = " " -> <<"_">>
            [] Head(str) = "&" -> <<"a", "n", "d">>
            [] OTHER -> <<Head(str)>>) \o LayerId(Tail(str))
-----------------------------------------------------------------------------
(* svg_exporter.py: the emission of one feature.                            *)

\* f'{x:.2f}': the value in hundredths, rounded to the nearest
Fmt2(x) ==
    LET h == RAdd(RMul(x, R(100)), <<1, 2>>)
    IN  h[1] \div h[2]

\* a list of points projected and formatted: "x,y" pairs, with the instance as
\* the calls leave it
RECURSIVE ProjectPoints(_, _)
ProjectPoints(obj, pts) ==
    IF pts = <<>> THEN [out |-> <<>>, self |-> obj]
    ELSE With(lon_to_x(obj, Head(pts)[1]), LAMBDA cx :
         With(lat_to_y(cx.self, Head(pts)[2]), LAMBDA cy :
         With(ProjectPoints(cy.self, Tail(pts)), LAMBDA rest :
             [out |-> <<<<Fmt2(cx.ret), Fmt2(cy.ret)>>>> \o rest.out,
              self |-> rest.self])))

\* QgsWkbTypes.geometryType(geometry.wkbType())
GeometryType(geometry) ==
    CASE geometry.type \in {"Point", "MultiPoint"} -> "PointGeometry"
      [] geometry.type \in {"LineString", "MultiLineString"} -> "LineGeometry"
      [] geometry.type \in {"Polygon", "MultiPolygon"} -> "PolygonGeometry"
      [] OTHER -> "UnknownGeometry"

\* geometry.isMultipart()
IsMultipart(geometry) ==
    geometry.type \in {"MultiPoint", "MultiLineString", "MultiPolygon"}

NoSymbol == [none |-> "symbol"]
Darker(color) == <<"darker", color>>

\* get_style_attrs(symbol, geom_type).  A symbol is a record: color, alpha, the
\* symbol layers (each with the attributes it has), and width when it is a line
\* symbol.  str(number) and float(string) are inverse, so widths stay numbers.
get_style_attrs(symbol, geometry) ==
    LET attrs == [stroke |-> "black", stroke_width |-> R(1), fill |-> "none",
                  fill_opacity |-> <<1, 2>>, stroke_opacity |-> R(1)]
        has_layer == symbol.symbol_layers # <<>>
        symbol_layer == symbol.symbol_layers[1]
    IN  IF symbol = NoSymbol THEN attrs
        ELSE IF GeometryType(geometry) = "PolygonGeometry"
        THEN [stroke |-> IF has_layer /\ "strokeColor" \in DOMAIN symbol_layer
                            /\ symbol_layer.strokeColor # "invalid"
                         THEN symbol_layer.strokeColor ELSE Darker(symbol.color),
              stroke_width |-> IF has_layer /\ "strokeWidth" \in DOMAIN symbol_layer
                               THEN symbol_layer.strokeWidth ELSE <<1, 2>>,
              fill |-> symbol.color,
              fill_opacity |-> symbol.alpha,
              stroke_opacity |-> R(1)]
        ELSE IF GeometryType(geometry) = "LineGeometry"
        THEN [stroke |-> symbol.color,
              stroke_width |->
                  IF has_layer /\ "width" \in DOMAIN symbol_layer
                  THEN RMax(<<1, 10>>, symbol_layer.width)
                  ELSE IF "width" \in DOMAIN symbol
                  THEN RMax(<<1, 10>>, symbol.width)
                  ELSE R(1),
              fill |-> "none",
              fill_opacity |-> <<1, 2>>,
              stroke_opacity |-> symbol.alpha]
        ELSE [stroke |-> Darker(symbol.color), stroke_width |-> R(1),
              fill |-> symbol.color, fill_opacity |-> <<1, 2>>,
              stroke_opacity |-> R(1)]

\* water_layer_keywords = ['water bodies', 'water_bodies', 'bays', 'bay']
water_layer_keywords ==
    { <<"w", "a", "t", "e", "r", " ", "b", "o", "d", "i", "e", "s">>,
      <<"w", "a", "t", "e", "r", "_", "b", "o", "d", "i", "e", "s">>,
      <<"b", "a", "y", "s">>,
      <<"b", "a", "y">> }

\* any(keyword in layer_name.lower() for keyword in water_layer_keywords)
is_water_body(layer_name) ==
    \E keyword \in water_layer_keywords : Contains(keyword, Lower(layer_name))

\* the NULL attribute value, which is falsy: no string of characters
NULL == <<"QVariant(NULL)">>
S_NULL == <<"N", "U", "L", "L">>

\* The label test of add_point_to_svg and add_polygon_to_svg:
\*   name = feature.attribute('name')      (KeyError: no label)
\*   if name and str(name).strip() and str(name) != 'NULL': name_str = ...
\* The stripped name to label with, or NoValue.
LabelName(feature) ==
    IF "name" \notin DOMAIN feature.attributes THEN NoValue
    ELSE LET name == feature.attributes.name
         IN  IF name = NULL \/ name = <<>> THEN NoValue
             ELSE IF Strip(name) = <<>> \/ name = S_NULL THEN NoValue
             ELSE Strip(name)

\* What the emission of (a part of) a feature hands back: whether an exception
\* left it, the instance, the layer group's children, the labels group, and the
\* set of used label names.
Emitted(raised, obj, group, labels, used) ==
    [raised |-> raised, group |-> group, labels |-> labels, used |-> used,
     self |-> obj]

TextElement(x, y, anchor, name_str) ==
    [tag |-> "text", x |-> x, y |-> y, text_anchor |-> anchor, text |-> name_str]

\* the circle of add_point_to_svg and, for a water-body layer, its label
PointDrawn(cx, cy, name_str, group, labels, style_attrs, layer_name, used) ==
    IF is_water_body(layer_name) /\ name_str # NoValue /\ name_str \notin used
    THEN Emitted(FALSE, cy.self,
                 Append(group, [tag |-> "circle", cx |-> Fmt2(cx.ret),
                                cy |-> Fmt2(cy.ret), fill |-> style_attrs.stroke,
                                stroke |-> "black", stroke_width |-> R(1)]),
                 Append(labels, TextElement(Fmt2(cx.ret), Fmt2(cy.ret), "start",
                                            name_str)),
                 used \cup {name_str})
    ELSE Emitted(FALSE, cy.self,
                 Append(group, [tag |-> "circle", cx |-> Fmt2(cx.ret),
                                cy |-> Fmt2(cy.ret), fill |-> style_attrs.stroke,
                                stroke |-> "black", stroke_width |-> R(1)]),
                 labels, used)

\* add_point_to_svg.  geometry.asPoint() raises TypeError on a multi-point.
add_point_to_svg(obj, feature, group, labels, style_attrs, layer_name, used) ==
    IF feature.geometry.type # "Point"
    THEN Emitted(TRUE, obj, group, labels, used)
    ELSE With(lon_to_x(obj, feature.geometry.coordinates[1]), LAMBDA cx :
             PointDrawn(cx, lat_to_y(cx.self, feature.geometry.coordinates[2]),
                        LabelName(feature), group, labels, style_attrs,
                        layer_name, used))

\* add_single_line
add_single_line(obj, line, group, style_attrs) ==
    IF line = <<>> THEN [group |-> group, self |-> obj]
    ELSE With(ProjectPoints(obj, line), LAMBDA pp :
             [group |-> Append(group,
                  [tag |-> "path", d |-> pp.out, closed |-> FALSE,
                   fill |-> "none", stroke |-> style_attrs.stroke,
                   stroke_width |-> IF RLess(style_attrs.stroke_width, <<1, 2>>)
                                    THEN R(1) ELSE style_attrs.stroke_width,
                   stroke_opacity |-> style_attrs.stroke_opacity]),
              self |-> pp.self])

\* the loop of add_line_to_svg over the parts of a multi-line
RECURSIVE add_lines(_, _, _, _)
add_lines(obj, lines, group, style_attrs) ==
    IF lines = <<>> THEN [group |-> group, self |-> obj]
    ELSE With(add_single_line(obj, Head(lines), group, style_attrs),
              LAMBDA one : add_lines(one.self, Tail(lines), one.group,
                                     style_attrs))

\* add_line_to_svg
add_line_to_svg(obj, geometry, group, style_attrs) ==
    IF IsMultipart(geometry)
    THEN add_lines(obj, geometry.coordinates, group, style_attrs)
    ELSE add_single_line(obj, geometry.coordinates, group, style_attrs)

\* the loop over polygon[1:] of add_single_polygon
RECURSIVE add_holes(_, _, _)
add_holes(obj, inner_rings, group) ==
    IF inner_rings = <<>> THEN [group |-> group, self |-> obj]
    ELSE With(ProjectPoints(obj, Head(inner_rings)),
              LAMBDA pp : add_holes(pp.self, Tail(inner_rings),
                  Append(group, [tag |-> "path", d |-> pp.out, closed |-> TRUE,
                                 fill |-> "white", stroke |-> "none"])))

\* A faulty add_single_polygon, which draws the outer ring only
add_single_polygon_OuterOnly(obj, polygon, group, style_attrs) ==
    IF polygon = <<>> \/ polygon[1] = <<>> THEN [group |-> group, self |-> obj]
    ELSE With(ProjectPoints(obj, polygon[1]), LAMBDA pp :
             [group |-> Append(group,
                  [tag |-> "path", d |-> pp.out, closed |-> TRUE,
                   fill |-> style_attrs.fill,
                   fill_opacity |-> style_attrs.fill_opacity,
                   stroke |-> style_attrs.stroke,
                   stroke_width |-> style_attrs.stroke_width,
                   stroke_opacity |-> style_attrs.stroke_opacity]),
              self |-> pp.self])

\* add_single_polygon
add_single_polygon(obj, polygon, group, style_attrs) ==
    IF polygon = <<>> \/ polygon[1] = <<>> THEN [group |-> group, self |-> obj]
    ELSE With(ProjectPoints(obj, polygon[1]), LAMBDA pp :
             add_holes(pp.self, Tail(polygon),
                 Append(group, [tag |-> "path", d |-> pp.out, closed |-> TRUE,
                                fill |-> style_attrs.fill,
                                fill_opacity |-> style_attrs.fill_opacity,
                                stroke |-> style_attrs.stroke,
                                stroke_width |-> style_attrs.stroke_width,
                                stroke_opacity |-> style_attrs.stroke_opacity])))

\* the loop of add_polygon_to_svg over the parts of a multi-polygon
RECURSIVE add_polygons(_, _, _, _)
add_polygons(obj, polygons, group, style_attrs) ==
    IF polygons = <<>> THEN [group |-> group, self |-> obj]
    ELSE With(add_single_polygon(obj, Head(polygons), group, style_attrs),
              LAMBDA one : add_polygons(one.self, Tail(polygons), one.group,
                                        style_attrs))

\* geometry.centroid().asPoint() of a polygon geometry of non-zero area: the
\* area-weighted centroid (holes subtracted), by the shoelace sums of each ring:
\* S = sum of cross products (twice the signed area), Tx, Ty = first moments.
Sums(S, Tx, Ty) == [S |-> S, Tx |-> Tx, Ty |-> Ty]

AddSegment(rest, a, b, cross) ==
    Sums(RAdd(rest.S, cross),
         RAdd(rest.Tx, RMul(RAdd(a[1], b[1]), cross)),
         RAdd(rest.Ty, RMul(RAdd(a[2], b[2]), cross)))

RECURSIVE RingSums(_, _)
RingSums(ring, i) ==
    IF i >= Len(ring) THEN Sums(R(0), R(0), R(0))
    ELSE AddSegment(RingSums(ring, i + 1), ring[i], ring[i + 1],
                    RSub(RMul(ring[i][1], ring[i + 1][2]),
                         RMul(ring[i + 1][1], ring[i][2])))

ScaleSums(f, m) == Sums(RMul(f, m.S), RMul(f, m.Tx), RMul(f, m.Ty))

\* the sums of one ring, oriented so that its area counts with the given sign
OrientedSign(m, sign) == IF RLess(m.S, R(0)) THEN R(-sign) ELSE R(sign)
OrientedSums(ring, sign) ==
    With(RingSums(ring, 1), LAMBDA m : ScaleSums(OrientedSign(m, sign), m))

AddSums(m, n) ==
    [S |-> RAdd(m.S, n.S), Tx |-> RAdd(m.Tx, n.Tx), Ty |-> RAdd(m.Ty, n.Ty)]

RECURSIVE HoleSums(_)
HoleSums(rings) ==
    IF rings = <<>> THEN Sums(R(0), R(0), R(0))
    ELSE AddSums(OrientedSums(Head(rings), -1), HoleSums(Tail(rings)))

RECURSIVE PolygonSums(_)
PolygonSums(polygons) ==
    IF polygons = <<>> THEN Sums(R(0), R(0), R(0))
    ELSE AddSums(AddSums(OrientedSums(Head(polygons)[1], 1),
                         HoleSums(Tail(Head(polygons)))),
                 PolygonSums(Tail(polygons)))

CentroidOf(m) == <<RDiv(m.Tx, RMul(R(3), m.S)), RDiv(m.Ty, RMul(R(3), m.S))>>
Centroid(geometry) ==
    CentroidOf(PolygonSums(IF IsMultipart(geometry) THEN geometry.coordinates
                           ELSE <<geometry.coordinates>>))

\* the label of add_polygon_to_svg at the centroid, for a water-body layer
PolygonLabelled(drawn, cx, cy, name_str, labels, used) ==
    Emitted(FALSE, cy.self, drawn.group,
            Append(labels, TextElement(Fmt2(cx.ret), Fmt2(cy.ret), "middle",
                                       name_str)),
            used \cup {name_str})

PolygonDrawn(drawn, feature, name_str, labels, layer_name, used) ==
    IF is_water_body(layer_name) /\ name_str # NoValue /\ name_str \notin used
    THEN With(Centroid(feature.geometry), LAMBDA centroid :
         With(lon_to_x(drawn.self, centroid[1]), LAMBDA cx :
             PolygonLabelled(drawn, cx, lat_to_y(cx.self, centroid[2]),
                             name_str, labels, used)))
    ELSE Emitted(FALSE, drawn.self, drawn.group, labels, used)

\* add_polygon_to_svg
add_polygon_to_svg(obj, feature, group, labels, style_attrs, layer_name, used) ==
    With(IF IsMultipart(feature.geometry)
         THEN add_polygons(obj, feature.geometry.coordinates, group, style_attrs)
         ELSE add_single_polygon(obj, feature.geometry.coordinates, group,
                                 style_attrs),
         LAMBDA drawn :
             PolygonDrawn(drawn, feature, LabelName(feature), labels, layer_name,
                          used))

\* add_feature_to_svg(feature, features_group, labels_group, symbol, layer_name,
\*                    used_label_names)
LineDrawn(drawn, labels, used) ==
    Emitted(FALSE, drawn.self, drawn.group, labels, used)

FeatureDrawn(obj, feature, group, labels, style_attrs, kind, layer_name, used) ==
    CASE kind = "PointGeometry" ->
            add_point_to_svg(obj, feature, group, labels, style_attrs,
                             layer_name, used)
      [] kind = "LineGeometry" ->
            LineDrawn(add_line_to_svg(obj, feature.geometry, group, style_attrs),
                      labels, used)
      [] kind = "PolygonGeometry" ->
            add_polygon_to_svg(obj, feature, group, labels, style_attrs,
                               layer_name, used)
      [] OTHER -> Emitted(FALSE, obj, group, labels, used)

add_feature_to_svg(obj, feature, group, labels, symbol, layer_name, used) ==
    IF feature.geometry.type = "Null" THEN Emitted(FALSE, obj, group, labels, used)
    ELSE FeatureDrawn(obj, feature, group, labels,
                      get_style_attrs(symbol, feature.geometry),
                      GeometryType(feature.geometry), layer_name, used)

-----------------------------------------------------------------------------
(* svg_exporter.py: export_layers_to_svg, one step per layer and feature.   *)

WGS84 == "EPSG:4326"
\* A second CRS, standing for any projected CRS: its unit is half a degree, so
\* the transform to WGS84 halves every coordinate.
HalfDegreeCRS == "half-degree"

HalfPoint(pt) == <<RDiv(pt[1], R(2)), RDiv(pt[2], R(2))>>
HalfLine(line) == [i \in 1..Len(line) |-> HalfPoint(line[i])]
HalfRings(rings) == [i \in 1..Len(rings) |-> HalfLine(rings[i])]

\* geom = QgsGeometry(feature.geometry()); geom.transform(transform)
TransformGeometry(geometry) ==
    CASE geometry.type = "Point" ->
            [geometry EXCEPT !.coordinates = HalfPoint(@)]
      [] geometry.type \in {"MultiPoint", "LineString"} ->
            [geometry EXCEPT !.coordinates = HalfLine(@)]
      [] geometry.type \in {"MultiLineString", "Polygon"} ->
            [geometry EXCEPT !.coordinates = HalfRings(@)]
      [] geometry.type = "MultiPolygon" ->
            [geometry EXCEPT !.coordinates = [i \in 1..Len(@) |-> HalfRings(@[i])]]
      [] OTHER -> geometry

\* A faulty start of the pass, which keeps the names of the previous export
NewLabelNames_Kept(previous) == previous

\* used_label_names = set()
NewLabelNames(previous) == {}

\* the document handed to tree.write
Document(obj, features, labels) ==
    [width_mm |-> obj.page_width_mm, height_mm |-> obj.page_height_mm,
     viewBox |-> <<0, 0, Fmt2(obj.width) \div 100, Fmt2(obj.height) \div 100>>,
     features |-> features, labels |-> labels]

\* exporter = SVGExporter(bbox, paper_size, orientation, margin_mm)
\* exporter.export_layers_to_svg(layers_to_export, filename): up to the layer loop
ExportBegin(cfg, lys) ==
    /\ pc \in {"written", "raised"} \/ (pc = "idle" /\ self = NoObject)
    /\ exports < MaxExports
    /\ \E obj \in {SVGExporter(cfg[1], cfg[2], cfg[3], cfg[4])} :
           /\ IsExporter(obj)
           /\ self' = obj
           /\ layout0' = [args |-> cfg, attrs |-> obj]
    /\ memo' = NoValue
    /\ last' = NoValue
    /\ pc' = "layers"
    /\ layers' = lys
    /\ li' = 1
    /\ fi' = 0
    /\ features_group' = <<>>
    /\ labels_group' = <<>>
    /\ used_label_names' = NewLabelNames(used_label_names)
    /\ output_file' = NoValue
    /\ exports' = exports + 1
    /\ UNCHANGED <<frame_call, frame_result, osm_call, download_call, download_result,
                   labels_result, osm_result, labelVars, dialogVars>>

\* the head of the layer loop: an invalid layer is skipped, a valid one gets its
\* layer group
LayerStart ==
    /\ pc = "layers"
    /\ li <= Len(layers)
    /\ fi = 0
    /\ IF layers[li].valid
       THEN /\ features_group' = Append(features_group,
                    [id |-> LayerId(layers[li].name), class |-> "layer",
                     children |-> <<>>])
            /\ fi' = 1
            /\ li' = li
       ELSE /\ li' = li + 1
            /\ UNCHANGED <<features_group, fi>>
    /\ UNCHANGED <<self, layout0, memo, last, frame_call, frame_result, osm_call, download_call, download_result,
                   labels_result,
                   osm_result, pc, layers, labels_group, used_label_names,
                   output_file, exports, labelVars, dialogVars>>

\* one pass of "for feature in layer.getFeatures()".  With a transform the call of
\* add_feature_to_svg is inside try/except and a failure skips the feature;
\* without one the exception leaves export_layers_to_svg.
EmitFeature ==
    /\ pc = "layers"
    /\ li <= Len(layers)
    /\ fi >= 1
    /\ fi <= Len(layers[li].features)
    /\ \E r \in {add_feature_to_svg(self,
                    IF layers[li].crs # WGS84
                    THEN [layers[li].features[fi] EXCEPT
                              !.geometry = TransformGeometry(@)]
                    ELSE layers[li].features[fi],
                    features_group[Len(features_group)].children,
                    labels_group, layers[li].symbol, layers[li].name,
                    used_label_names)} :
           IF r.raised
           THEN /\ IF layers[li].crs # WGS84
                   THEN fi' = fi + 1 /\ pc' = pc
                   ELSE fi' = fi /\ pc' = "raised"
                /\ UNCHANGED <<self, features_group, labels_group,
                               used_label_names>>
           ELSE /\ self' = r.self
                /\ features_group' =
                       [features_group EXCEPT ![Len(features_group)].children =
                                                  r.group]
                /\ labels_group' = r.labels
                /\ used_label_names' = r.used
                /\ fi' = fi + 1
                /\ pc' = pc
    /\ UNCHANGED <<layout0, memo, last, frame_call, frame_result, osm_call, download_call, download_result,
                   labels_result,
                   osm_result, layers, li, output_file, exports, labelVars, dialogVars>>

\* the feature loop of a layer is exhausted
LayerDone ==
    /\ pc = "layers"
    /\ li <= Len(layers)
    /\ fi = Len(layers[li].features) + 1
    /\ li' = li + 1
    /\ fi' = 0
    /\ UNCHANGED <<self, layout0, memo, last, frame_call, frame_result, osm_call, download_call, download_result,
                   labels_result,
                   osm_result, pc, layers, features_group, labels_group,
                   used_label_names, output_file, exports, labelVars, dialogVars>>

\* A faulty writing, which also puts the document on disk before each layer
WriteFile_Early ==
    /\ pc = "layers"
    /\ li = Len(layers) + 1 \/ fi = 0
    /\ output_file' = Document(self, features_group, labels_group)
    /\ pc' = IF li = Len(layers) + 1 THEN "written" ELSE pc
    /\ UNCHANGED <<self, layout0, memo, last, frame_call, frame_result, osm_call,
                   osm_result, download_call, download_result, labels_result,
                   layers, li, fi, features_group, labels_group,
                   used_label_names, exports, labelVars, dialogVars>>

\* tree.write(output_file, ...)
WriteFile ==
    /\ pc = "layers"
    /\ li = Len(layers) + 1
    /\ output_file' = Document(self, features_group, labels_group)
    /\ pc' = "written"
    /\ UNCHANGED <<self, layout0, memo, last, frame_call, frame_result, osm_call, download_call, download_result,
                   labels_result,
                   osm_result, layers, li, fi, features_group, labels_group,
                   used_label_names, exports, labelVars, dialogVars>>

-----------------------------------------------------------------------------
(* The layers the export is exercised with.                                 *)

S_Erie == <<"E", "r", "i", "e">>
S_Erie_padded == <<" ", "E", "r", "i", "e", " ">>
S_Huron == <<"H", "u", "r", "o", "n">>
S_blank == <<" ">>

P(x, y) == <<R(x), R(y)>>
Square == <<P(-1, -1), P(1, -1), P(1, 1), P(-1, 1), P(-1, -1)>>
Triangle == <<P(0, 0), P(1, 0), P(0, 1), P(0, 0)>>
Doubled(line) == [i \in 1..Len(line) |-> <<RMul(R(2), line[i][1]), RMul(R(2), line[i][2])>>]

Feature(type, coordinates, attributes) ==
    [geometry |-> [type |-> type, coordinates |-> coordinates],
     attributes |-> attributes]

FillSymbol == [color |-> "#87CEEB", alpha |-> <<3, 5>>,
               symbol_layers |-> <<[strokeWidth |-> <<13, 50>>,
                                    strokeColor |-> "#4682B4"]>>]
LineSymbol == [color |-> "#FFD700", alpha |-> R(1), width |-> <<7, 10>>,
               symbol_layers |-> <<[width |-> <<7, 10>>]>>]
HairlineSymbol == [color |-> "#000000", alpha |-> R(1), width |-> <<1, 4>>,
                   symbol_layers |-> <<>>]
MarkerSymbol == [color |-> "#FF0000", alpha |-> R(1),
                 symbol_layers |-> <<[strokeColor |-> "invalid"]>>]

Layer(name, valid, crs, symbol, features) ==
    [name |-> name, valid |-> valid, crs |-> crs, symbol |-> symbol,
     features |-> features]

WaterLayer ==
    Layer(<<"W", "a", "t", "e", "r", " ", "B", "o", "d", "i", "e", "s", " ", "&", " ", "L", "a", "k", "e", "s">>, TRUE, WGS84, FillSymbol,
          << Feature("Polygon", <<Square, Triangle>>, [name |-> S_Erie]),
             Feature("Point", P(0, 0), [name |-> S_Erie]),
             Feature("MultiPolygon", << <<Triangle>>, <<Square>> >>,
                     [name |-> S_Huron]) >>)

BaysLayer ==
    Layer(<<"B", "a", "y", "s">>, TRUE, HalfDegreeCRS, FillSymbol,
          << Feature("Polygon", <<Doubled(Triangle)>>, [name |-> S_Erie_padded]),
             Feature("MultiPoint", <<P(0, 0), P(2, 2)>>, [name |-> S_Huron]),
             Feature("Point", P(2, -2), [name |-> NULL]) >>)

RoadsLayer ==
    Layer(<<"M", "a", "j", "o", "r", " ", "R", "o", "a", "d", "s">>, TRUE, WGS84, LineSymbol,
          << Feature("LineString", <<P(-1, 0), P(0, 0), P(1, 1)>>,
                     [name |-> S_Erie]),
             Feature("MultiLineString",
                     << <<P(-1, -1), P(0, 0)>>, <<>>, <<P(0, 1), P(1, 1)>> >>,
                     [highway |-> "primary"]) >>)

CitiesLayer ==
    Layer(<<"C", "i", "t", "i", "e", "s">>, TRUE, WGS84, NoSymbol,
          << Feature("Point", P(0, 1), [name |-> S_Erie]),
             Feature("MultiPoint", <<P(0, 0)>>, [name |-> S_Huron]),
             Feature("Point", P(1, 1), [place |-> "city"]) >>)

InvalidLayer ==
    Layer(<<"B", "r", "o", "k", "e", "n">>, FALSE, WGS84, NoSymbol, <<>>)

LabelsLayer ==
    Layer(<<"W", "a", "t", "e", "r", " ", "B", "o", "d", "i", "e", "s", " ", "&", " ", "L", "a", "k", "e", "s", " ", "L", "a", "b", "e", "l", "s">>, TRUE, WGS84, MarkerSymbol,
          << Feature("Point", P(1, 0), [name |-> S_Erie_padded]),
             Feature("Null", <<>>, [name |-> S_Huron]),
             Feature("Point", P(0, 0), [name |-> S_blank]),
             Feature("Point", P(0, 0), [name |-> S_NULL]),
             Feature("LineString", <<P(0, 0), P(1, 0)>>, [name |-> S_Huron]) >>)

StreamsLayer ==
    Layer(<<"S", "t", "r", "e", "a", "m", "s">>, TRUE, HalfDegreeCRS, HairlineSymbol,
          << Feature("LineString", <<P(-2, 2), P(2, -2)>>, [name |-> S_Huron]),
             Feature("Polygon", <<>>, [waterway |-> "stream"]) >>)

LayerPool == {WaterLayer, BaysLayer, RoadsLayer, CitiesLayer, InvalidLayer,
              LabelsLayer, StreamsLayer}

\* the lists of layers handed to an export call: none, one, or two of the pool
LayerLists ==
    {<<>>} \cup {<<a>> : a \in LayerPool} \cup {<<a, b>> : a, b \in LayerPool}

\* the export dialog's call (paper, orientation and margin chosen by the user)
\* and the print layout's call SVGExporter(svg_bbox, 'A3', 'portrait')
ExportConfigs ==
    { << <<R(-1), R(-1), R(1), R(1)>>, "A3", "portrait", 10 >>,
      << <<R(-1), R(-2), R(1), R(2)>>, "Letter", "auto", 0 >> }

NextExport ==
    \/ \E cfg \in ExportConfigs, lys \in LayerLists : ExportBegin(cfg, lys)
    \/ LayerStart
    \/ EmitFeature
    \/ LayerDone
    \/ WriteFile

-----------------------------------------------------------------------------
(* frame_builder.py: FrameBuilder.create_frame_geometry.                    *)
(*                                                                          *)
(* A frame corner is a coordinate of some degrees plus an offset of about a *)
(* millionth of a degree, which no quotient of two 32-bit integers holds.   *)
(* Such a number is kept as <<w, f>>: the integer w plus the rational f,    *)
(* 0 <= f < 1.  The arithmetic is exact.                                    *)

Wide(a) == <<a[1] \div a[2], Norm(a[1] % a[2], a[2])>>

WideSum(w, l, t1, t2) ==
    IF t1 >= l - t2 THEN <<w + 1, Norm(t1 - (l - t2), l)>>
    ELSE <<w, Norm(t1 + t2, l)>>
WideAddL(x, y, l) ==
    WideSum(x[1] + y[1], l, x[2][1] * (l \div x[2][2]), y[2][1] * (l \div y[2][2]))
WideAdd(x, y) == WideAddL(x, y, LCM(x[2][2], y[2][2]))
WideNeg(x) ==
    IF x[2][1] = 0 THEN <<-x[1], R(0)>>
    ELSE <<-x[1] - 1, <<x[2][2] - x[2][1], x[2][2]>>>>
WideSub(x, y) == WideAdd(x, WideNeg(y))
WideLess(x, y) == x[1] < y[1] \/ (x[1] = y[1] /\ RLess(x[2], y[2]))
\* x / 2
WideHalf(x) ==
    IF x[1] % 2 = 0 THEN <<x[1] \div 2, RDiv(x[2], R(2))>>
    ELSE WideAdd(<<(x[1] - 1) \div 2, RDiv(x[2], R(2))>>, <<0, <<1, 2>>>>)

\* class attributes FRAME_WIDTH_INCHES, FRAME_HEIGHT_INCHES
FRAME_WIDTH_INCHES == 11
FRAME_HEIGHT_INCHES == 14

\* meters_per_degree_at_lat(lat): math.cos(math.radians(lat)) * 111000
meters_per_degree_at_lat(lat) == RMul(CosDeg(lat), R(111000))

\* inches_to_meters(inches): inches * 0.0254
inches_to_meters(inches) == RMul(R(inches), <<254, 10000>>)

ValueError == [raised |-> "ValueError"]
\* the argument None, told from every tuple of coordinates by its length
NoBBox == <<"None">>

\* Python strings of the orientation argument, as sequences of characters
S_portrait == <<"p", "o", "r", "t", "r", "a", "i", "t">>
S_landscape == <<"l", "a", "n", "d", "s", "c", "a", "p", "e">>
S_Landscape == <<"L", "a", "n", "d", "s", "c", "a", "p", "e">>

\* "if not bbox or len(bbox) != 4": None and the empty tuple are falsy
Malformed(bbox) == bbox = NoBBox \/ bbox = <<>> \/ Len(bbox) # 4

\* A faulty validation, with > for >=
InvalidBBox_Strict(bbox) == RLess(bbox[3], bbox[1]) \/ RLess(bbox[4], bbox[2])

\* "if south >= north or west >= east"
InvalidBBox(bbox) == RLeq(bbox[3], bbox[1]) \/ RLeq(bbox[4], bbox[2])

\* A faulty corner, a whole frame width east of the center
frame_east_Full(center_lon, frame_width_deg) ==
    WideAdd(Wide(center_lon), Wide(frame_width_deg))

\* the four frame corners' coordinates
frame_north(center_lat, frame_height_deg) ==
    WideAdd(Wide(center_lat), Wide(RDiv(frame_height_deg, R(2))))
frame_south(center_lat, frame_height_deg) ==
    WideSub(Wide(center_lat), Wide(RDiv(frame_height_deg, R(2))))
frame_east(center_lon, frame_width_deg) ==
    WideAdd(Wide(center_lon), Wide(RDiv(frame_width_deg, R(2))))
frame_west(center_lon, frame_width_deg) ==
    WideSub(Wide(center_lon), Wide(RDiv(frame_width_deg, R(2))))

\* A faulty ring, left open
FramePoints_Open(west, south, east, north) ==
    << <<west, south>>, <<east, south>>, <<east, north>>, <<west, north>> >>

\* points = [SW, SE, NE, NW, SW]
FramePoints(west, south, east, north) ==
    << <<west, south>>, <<east, south>>, <<east, north>>, <<west, north>>,
       <<west, south>> >>

\* QgsGeometry.fromPolylineXY(points) is a single line, not multipart, so the
\* result is QgsGeometry.fromPolygonXY([points])
FrameGeometry(points) == [type |-> "Polygon", coordinates |-> <<points>>]

\* the frame of the given size in inches around the center
FrameAround(center_lat, center_lon, frame_width_inches, frame_height_inches) ==
    FrameGeometry(FramePoints(
        frame_west(center_lon,
                   RDiv(inches_to_meters(frame_width_inches),
                        meters_per_degree_at_lat(center_lat))),
        frame_south(center_lat,
                    RDiv(inches_to_meters(frame_height_inches), R(111000))),
        frame_east(center_lon,
                   RDiv(inches_to_meters(frame_width_inches),
                        meters_per_degree_at_lat(center_lat))),
        frame_north(center_lat,
                    RDiv(inches_to_meters(frame_height_inches), R(111000)))))

\* create_frame_geometry(bbox, orientation): the geometry returned, or the
\* ValueError raised
create_frame_geometry(bbox, orientation) ==
    IF Malformed(bbox) THEN ValueError
    ELSE IF InvalidBBox(bbox) THEN ValueError
    ELSE IF Lower(orientation) = S_landscape
    THEN FrameAround(RDiv(RAdd(bbox[3], bbox[1]), R(2)),
                     RDiv(RAdd(bbox[2], bbox[4]), R(2)),
                     FRAME_HEIGHT_INCHES, FRAME_WIDTH_INCHES)
    ELSE FrameAround(RDiv(RAdd(bbox[3], bbox[1]), R(2)),
                     RDiv(RAdd(bbox[2], bbox[4]), R(2)),
                     FRAME_WIDTH_INCHES, FRAME_HEIGHT_INCHES)

\* The bounding boxes the frame builder is called with: None, tuples of a wrong
\* length, and <<south, west, north, east>> from pairs in and out of order.
FrameLatPairs ==
    { <<R(-1), R(1)>>, <<R(-2), R(2)>>, <<R(59), R(61)>>, <<R(-61), R(-59)>>,
      <<<<-1, 2>>, <<1, 2>>>>, <<<<119, 2>>, <<121, 2>>>>,
      <<R(1), R(-1)>>, <<R(0), R(0)>>, <<R(60), R(60)>>, <<R(61), R(59)>> }
FrameLonPairs ==
    { <<R(-1), R(1)>>, <<R(10), R(12)>>, <<R(-81), R(-77)>>, <<R(0), <<1, 3>>>>,
      <<R(179), R(180)>>, <<R(-180), R(180)>>,
      <<R(1), R(1)>>, <<R(12), R(10)>>, <<R(5), R(5)>> }
FrameBBoxes ==
    { <<lat[1], lon[1], lat[2], lon[2]>> : lat \in FrameLatPairs,
                                            lon \in FrameLonPairs }
    \cup { NoBBox, <<>>, <<R(-1), R(-1), R(1)>>, <<R(-1), R(-1), R(1), R(1), R(0)>> }
FrameOrientations == {S_portrait, S_landscape, S_Landscape}

\* geom = FrameBuilder.create_frame_geometry(bbox, orientation): a behaviour
\* follows one call of the class method, which reads and writes no state.
CreateFrame(bbox, orientation) ==
    /\ frame_call = NoValue
    /\ frame_call' = [bbox |-> bbox, orientation |-> orientation]
    /\ frame_result' = create_frame_geometry(bbox, orientation)
    /\ UNCHANGED <<self, layout0, memo, last, osm_call, download_call, download_result,
                   labels_result, osm_result, pc, layers,
                   li, fi, features_group, labels_group, used_label_names,
                   output_file, exports, labelVars, dialogVars>>

NextFrame ==
    \E bbox \in FrameBBoxes, orientation \in FrameOrientations :
        CreateFrame(bbox, orientation)

-----------------------------------------------------------------------------
(* osm_api.py: OSMAPIHandler.osm_to_geojson and element_to_feature.         *)
(*                                                                          *)
(* An element, a member and a point are records that have the keys the JSON *)
(* object has; a tag mapping is the set of its <<key, value>> pairs.        *)

\* what a call hands back besides a value
None == [none |-> "None"]
KeyError == [raised |-> "KeyError"]
TypeError == [raised |-> "TypeError"]
Raised(r) == "raised" \in DOMAIN r

\* a JSON null in the place of a point
JsonNull == [null |-> "null"]

\* element.get('tags', {})
GetTags(element) == IF "tags" \in DOMAIN element THEN element.tags ELSE {}
\* key in tags
HasKey(tags, key) == \E kv \in tags : kv[1] = key

\* coords = [[pt['lon'], pt['lat']] for pt in geometry]: subscripting None
\* raises TypeError, a missing key raises KeyError; the first offending point
\* decides.  The list comes as [coords |-> list].
BadPoint(pt) == pt = JsonNull \/ "lon" \notin DOMAIN pt \/ "lat" \notin DOMAIN pt
PointError(pt) == IF pt = JsonNull THEN TypeError ELSE KeyError
FirstBadPoint(geometry) ==
    geometry[CHOOSE i \in DOMAIN geometry :
                 /\ BadPoint(geometry[i])
                 /\ \A j \in 1..(i - 1) : ~BadPoint(geometry[j])]
Coords(geometry) ==
    IF \E i \in DOMAIN geometry : BadPoint(geometry[i])
    THEN PointError(FirstBadPoint(geometry))
    ELSE [coords |-> [i \in DOMAIN geometry |->
                          <<geometry[i].lon, geometry[i].lat>>]]

S_roads == <<"r", "o", "a", "d", "s">>
S_trails == <<"t", "r", "a", "i", "l", "s">>

\* A faulty category test, which takes no category for line-only
is_road_Never(feature_name) == FALSE

\* is_road = 'roads' in feature_name or 'trails' in feature_name
is_road(feature_name) ==
    Contains(S_roads, feature_name) \/ Contains(S_trails, feature_name)

\* A faulty closedness test, which looks at the length only
is_closed_AnyLength(coords) == Len(coords) > 2

\* is_closed = len(coords) > 2 and coords[0] == coords[-1] (both coordinates)
is_closed(coords) ==
    /\ Len(coords) > 2
    /\ coords[1][1] = coords[Len(coords)][1]
    /\ coords[1][2] = coords[Len(coords)][2]

\* is_area = is_closed and (tags.get('area') == 'yes' or 'building' in tags or ...)
is_area(coords, tags) ==
    /\ is_closed(coords)
    /\ \/ <<"area", "yes">> \in tags
       \/ HasKey(tags, "building")
       \/ HasKey(tags, "landuse")
       \/ HasKey(tags, "natural")
       \/ HasKey(tags, "leisure")
       \/ HasKey(tags, "amenity")

GeoFeature(type, coordinates, properties) ==
    [type |-> "Feature",
     geometry |-> [type |-> type, coordinates |-> coordinates],
     properties |-> properties]

\* A faulty node branch, which makes points whether or not they are asked for
NodeFeature_Always(element, include_points) ==
    IF "lat" \notin DOMAIN element \/ "lon" \notin DOMAIN element THEN None
    ELSE IF GetTags(element) = {} THEN None
    ELSE GeoFeature("Point", <<element.lon, element.lat>>, GetTags(element))

\* the node branch of element_to_feature
NodeFeature(element, include_points) ==
    IF ~include_points THEN None
    ELSE IF "lat" \notin DOMAIN element \/ "lon" \notin DOMAIN element THEN None
    ELSE IF GetTags(element) = {} THEN None
    ELSE GeoFeature("Point", <<element.lon, element.lat>>, GetTags(element))

\* the way branch of element_to_feature, from the coordinate list on
WayGeometry(made, tags, feature_name) ==
    IF Raised(made) THEN made
    ELSE IF made.coords = <<>> THEN None
    ELSE IF is_road(feature_name)
    THEN GeoFeature("LineString", made.coords, tags)
    ELSE IF is_area(made.coords, tags)
    THEN GeoFeature("Polygon", <<made.coords>>, tags)
    ELSE GeoFeature("LineString", made.coords, tags)

WayFeature(element, feature_name) ==
    IF "geometry" \notin DOMAIN element THEN None
    ELSE WayGeometry(Coords(element.geometry), GetTags(element), feature_name)

\* A faulty closing of a ring, which leaves it as it came
CloseRing_AsGiven(coords) == coords

\* "if coords[0] != coords[-1]: coords.append(coords[0])"
CloseRing(coords) ==
    IF coords[1] # coords[Len(coords)] THEN Append(coords, coords[1]) ELSE coords

Ways(outer_ways, inner_ways) == [outer_ways |-> outer_ways, inner_ways |-> inner_ways]

\* A faulty sorting of a member, which drops a member whose role is neither
\* 'outer' nor 'inner'
MemberSorted_NamedRolesOnly(member, made, ways) ==
    IF Raised(made) THEN made
    ELSE IF made.coords = <<>> THEN ways
    ELSE IF "role" \notin DOMAIN member THEN KeyError
    ELSE IF member.role = "outer"
    THEN Ways(Append(ways.outer_ways, made.coords), ways.inner_ways)
    ELSE IF member.role = "inner"
    THEN Ways(ways.outer_ways, Append(ways.inner_ways, made.coords))
    ELSE ways

\* one pass of "for member in element['members']", from the coordinate list on
MemberSorted(member, made, ways) ==
    IF Raised(made) THEN made
    ELSE IF made.coords = <<>> THEN ways
    ELSE IF "role" \notin DOMAIN member THEN KeyError
    ELSE IF member.role = "outer"
    THEN Ways(Append(ways.outer_ways, made.coords), ways.inner_ways)
    ELSE IF member.role = "inner"
    THEN Ways(ways.outer_ways, Append(ways.inner_ways, made.coords))
    ELSE Ways(Append(ways.outer_ways, made.coords), ways.inner_ways)

MemberPass(member, ways) ==
    IF "type" \notin DOMAIN member THEN KeyError
    ELSE IF member.type # "way" \/ "geometry" \notin DOMAIN member THEN ways
    ELSE MemberSorted(member, Coords(member.geometry), ways)

\* the loop over the members: the two lists, or the exception that ends it
RECURSIVE CollectWays(_, _)
CollectWays(members, ways) ==
    IF members = <<>> \/ Raised(ways) THEN ways
    ELSE CollectWays(Tail(members), MemberPass(Head(members), ways))

\* A faulty relation geometry, which hands the inner rings to the first part of
\* a MultiPolygon
RelationGeometry_HolesInFirstPart(ways, tags) ==
    IF Raised(ways) THEN ways
    ELSE IF ways.outer_ways = <<>> THEN None
    ELSE IF Len(ways.outer_ways) = 1
    THEN GeoFeature("Polygon",
             <<CloseRing(ways.outer_ways[1])>>
                 \o [i \in DOMAIN ways.inner_ways |-> CloseRing(ways.inner_ways[i])],
             tags)
    ELSE GeoFeature("MultiPolygon",
             [i \in DOMAIN ways.outer_ways |->
                 IF i = 1
                 THEN <<CloseRing(ways.outer_ways[i])>>
                          \o [j \in DOMAIN ways.inner_ways |->
                                 CloseRing(ways.inner_ways[j])]
                 ELSE <<CloseRing(ways.outer_ways[i])>>],
             tags)

\* the relation branch of element_to_feature, from the two lists on
RelationGeometry(ways, tags) ==
    IF Raised(ways) THEN ways
    ELSE IF ways.outer_ways = <<>> THEN None
    ELSE IF Len(ways.outer_ways) = 1 /\ Len(ways.inner_ways) = 0
    THEN GeoFeature("Polygon", <<CloseRing(ways.outer_ways[1])>>, tags)
    ELSE IF Len(ways.outer_ways) = 1
    THEN GeoFeature("Polygon",
             <<CloseRing(ways.outer_ways[1])>>
                 \o [i \in DOMAIN ways.inner_ways |-> CloseRing(ways.inner_ways[i])],
             tags)
    ELSE GeoFeature("MultiPolygon",
             [i \in DOMAIN ways.outer_ways |-> <<CloseRing(ways.outer_ways[i])>>],
             tags)

RelationFeature(element) ==
    IF "members" \notin DOMAIN element THEN None
    ELSE IF ~(\E kv \in GetTags(element) :
                 kv[1] = "type" /\ kv[2] \in {"multipolygon", "boundary"})
    THEN None
    ELSE RelationGeometry(CollectWays(element.members, Ways(<<>>, <<>>)),
                          GetTags(element))

\* element_to_feature(element, nodes, include_points, feature_name): the feature,
\* None, or the exception raised.  element['type'] raises KeyError.
element_to_feature(element, nodes, include_points, feature_name) ==
    IF "type" \notin DOMAIN element THEN KeyError
    ELSE CASE element.type = "node" -> NodeFeature(element, include_points)
           [] element.type = "way" -> WayFeature(element, feature_name)
           [] element.type = "relation" -> RelationFeature(element)
           [] OTHER -> None

\* the first loop of osm_to_geojson: nodes[element['id']] = element
NodeLookup(elements) ==
    IF \E i \in DOMAIN elements : "type" \notin DOMAIN elements[i] THEN KeyError
    ELSE IF \E i \in DOMAIN elements :
                elements[i].type = "node" /\ "id" \notin DOMAIN elements[i]
    THEN KeyError
    ELSE [ids |-> {elements[i].id : i \in {j \in DOMAIN elements :
                                               elements[j].type = "node"}}]

\* the second loop of osm_to_geojson: the collection so far, or the exception
FeatureCollection(features) ==
    [type |-> "FeatureCollection", features |-> features]

FeatureAdded(collection, feature) ==
    IF Raised(feature) THEN feature
    ELSE IF feature = None THEN collection
    ELSE FeatureCollection(Append(collection.features, feature))

RECURSIVE ConvertAll(_, _, _, _, _)
ConvertAll(elements, nodes, include_points, feature_name, collection) ==
    IF elements = <<>> \/ Raised(collection) THEN collection
    ELSE ConvertAll(Tail(elements), nodes, include_points, feature_name,
             FeatureAdded(collection,
                 element_to_feature(Head(elements), nodes, include_points,
                                    feature_name)))

\* osm_to_geojson(osm_data, include_points, feature_name), with
\* elements = osm_data.get('elements', []): the collection, or the exception
\* that leaves the call (the method catches none)
osm_to_geojson(elements, include_points, feature_name) ==
    IF Raised(NodeLookup(elements)) THEN NodeLookup(elements)
    ELSE ConvertAll(elements, NodeLookup(elements), include_points,
                    feature_name, FeatureCollection(<<>>))

\* The elements the conversion is exercised with.
Pt(lon, lat) == [lon |-> lon, lat |-> lat]
RingABCA == <<Pt(0, 0), Pt(2, 0), Pt(2, 2), Pt(0, 0)>>
LineABC == <<Pt(0, 0), Pt(2, 0), Pt(2, 2)>>
RingABA == <<Pt(0, 0), Pt(2, 0), Pt(0, 0)>>
SmallRing == <<Pt(1, 1), Pt(2, 1), Pt(2, 2), Pt(1, 1)>>
SmallOpen == <<Pt(3, 3), Pt(4, 3), Pt(4, 4)>>

Way(id, geometry, tags) ==
    [type |-> "way", id |-> id, geometry |-> geometry, tags |-> tags]
Member(role, geometry) == [type |-> "way", ref |-> 1, role |-> role,
                           geometry |-> geometry]
Relation(id, members, tags) ==
    [type |-> "relation", id |-> id, members |-> members, tags |-> tags]

WayElements ==
    { Way(1, RingABCA, {<<"building", "yes">>}),
      Way(2, RingABCA, {<<"highway", "residential">>}),
      Way(3, RingABCA, {<<"area", "yes">>, <<"highway", "pedestrian">>}),
      Way(4, RingABCA, {<<"area", "no">>}),
      Way(5, LineABC, {<<"building", "yes">>}),
      Way(6, RingABA, {<<"building", "yes">>}),
      Way(7, <<Pt(0, 0), Pt(0, 0)>>, {<<"landuse", "forest">>}),
      Way(8, <<>>, {<<"natural", "water">>}),
      Way(9, <<Pt(0, 0), JsonNull, Pt(2, 2)>>, {<<"natural", "water">>}),
      Way(10, <<Pt(0, 0), [lon |-> 2], Pt(2, 2)>>, {<<"leisure", "park">>}),
      [type |-> "way", id |-> 11, tags |-> {<<"amenity", "school">>}],
      [type |-> "way", id |-> 12, geometry |-> RingABCA] }

NodeElements ==
    { [type |-> "node", id |-> 21, lat |-> 1, lon |-> 2,
       tags |-> {<<"place", "city">>}],
      [type |-> "node", id |-> 22, lat |-> 1, lon |-> 2],
      [type |-> "node", id |-> 23, lon |-> 2, tags |-> {<<"place", "city">>}],
      [type |-> "node", id |-> 25, lat |-> 1, lon |-> 2, tags |-> {}] }

RelationElements ==
    { Relation(31, <<Member("outer", LineABC), Member("inner", SmallOpen),
                     Member("inner", SmallRing)>>,
               {<<"type", "multipolygon">>}),
      Relation(32, <<Member("inner", SmallRing), Member("", RingABCA)>>,
               {<<"type", "boundary">>, <<"name", "x">>}),
      Relation(33, <<Member("outer", LineABC)>>, {<<"type", "multipolygon">>}),
      Relation(34, <<Member("outer", RingABCA), Member("outer", SmallOpen),
                     Member("inner", SmallRing)>>,
               {<<"type", "multipolygon">>}),
      Relation(35, <<Member("outer", RingABCA),
                     [type |-> "way", ref |-> 1, geometry |-> SmallRing]>>,
               {<<"type", "multipolygon">>}),
      Relation(36, <<Member("outer", RingABCA)>>, {<<"type", "route">>}),
      Relation(37, <<[type |-> "node", ref |-> 21, role |-> "label"],
                     [type |-> "way", ref |-> 1, role |-> "outer"],
                     Member("outer", <<>>)>>,
               {<<"type", "multipolygon">>}),
      Relation(38, <<Member("outer", RingABCA),
                     Member("inner", <<Pt(1, 1), JsonNull>>)>>,
               {<<"type", "boundary">>}),
      [type |-> "relation", id |-> 39, tags |-> {<<"type", "multipolygon">>}],
      [type |-> "relation", id |-> 40, members |-> <<Member("outer", RingABCA)>>],
      Relation(42, <<Member("inner", SmallRing)>>, {<<"type", "multipolygon">>}),
      Relation(43, <<>>, {<<"type", "boundary">>}) }

Elements == WayElements \cup NodeElements \cup RelationElements

\* the responses converted: one element, or two
ElementLists ==
    {<<e>> : e \in Elements} \cup {<<e, f>> : e, f \in Elements}

\* feature_name: category names of feature_configs.py, and the default ''
S_roads_major == <<"r", "o", "a", "d", "s", "_", "m", "a", "j", "o", "r">>
S_paths_trails == <<"p", "a", "t", "h", "s", "_", "t", "r", "a", "i", "l", "s">>
S_buildings == <<"b", "u", "i", "l", "d", "i", "n", "g", "s">>
S_water_bodies == <<"w", "a", "t", "e", "r", "_", "b", "o", "d", "i", "e", "s">>
FeatureNames == {S_roads_major, S_paths_trails, S_buildings, S_water_bodies, <<>>}

\* geojson = self.osm_to_geojson(data, include_points, feature_name): a behaviour
\* follows one call, which reads and writes no state of the handler.
Convert(elements, include_points, feature_name) ==
    /\ osm_call = NoValue
    /\ osm_call' = [elements |-> elements, include_points |-> include_points,
                    feature_name |-> feature_name]
    /\ osm_result' = osm_to_geojson(elements, include_points, feature_name)
    /\ UNCHANGED <<self, layout0, memo, last, frame_call, frame_result, download_call,
                   download_result, labels_result, pc,
                   layers, li, fi, features_group, labels_group,
                   used_label_names, output_file, exports, labelVars, dialogVars>>

NextGeo ==
    \E elements \in ElementLists, include_points \in BOOLEAN,
       feature_name \in FeatureNames :
        Convert(elements, include_points, feature_name)

-----------------------------------------------------------------------------
(* OSMAPIHandler.download_feature and create_labels_geojson, as one pass of *)
(* DownloadWorker.run calls them.  A response is None (query_overpass       *)
(* failed) or a dict with the key 'elements'.                               *)

S_water_bodies_lakes == S_water_bodies \o <<"_", "l", "a", "k", "e", "s">>

\* feature['properties']['_style'] = feature_config['style']
Styled(feature, style) ==
    [feature EXCEPT !.properties =
        {kv \in feature.properties : kv[1] # "_style"} \cup {<<"_style", style>>}]

\* the loop "for feature in geojson['features']" of download_feature
StyledAll(geojson, feature_config) ==
    IF Raised(geojson) \/ "style" \notin DOMAIN feature_config THEN geojson
    ELSE [geojson EXCEPT !.features =
             [i \in DOMAIN geojson.features |->
                 Styled(geojson.features[i], feature_config.style)]]

\* download_feature(bbox, feature_config), given what query_overpass returned:
\* the collection, None, or the exception raised by the conversion
download_feature(feature_config, data) ==
    IF data = None THEN None
    ELSE StyledAll(osm_to_geojson(data.elements,
                                  feature_config.name = S_water_bodies_lakes,
                                  feature_config.name),
                   feature_config)

\* feature.get('properties', {}).get('name') is truthy
HasName(feature) ==
    \E kv \in feature.properties : kv[1] = "name" /\ kv[2] # ""

RECURSIVE SumOf(_, _)
SumOf(ring, k) ==
    IF ring = <<>> THEN 0 ELSE ring[1][k] + SumOf(Tail(ring), k)

\* [x_sum / n, y_sum / n] over the points of a ring
RingAverage(ring) ==
    <<RDiv(R(SumOf(ring, 1)), R(Len(ring))), RDiv(R(SumOf(ring, 2)), R(Len(ring)))>>

\* A faulty label position, which takes the last point of a line
label_pos_LineEnd(geometry) ==
    IF geometry.type = "Point" THEN geometry.coordinates
    ELSE IF geometry.type = "LineString"
    THEN geometry.coordinates[Len(geometry.coordinates)]
    ELSE IF geometry.type = "Polygon" THEN RingAverage(geometry.coordinates[1])
    ELSE IF geometry.type = "MultiPolygon"
    THEN RingAverage(geometry.coordinates[1][1])
    ELSE None

\* label_pos of create_labels_geojson for coordinates that are not empty
label_pos(geometry) ==
    IF geometry.type = "Point" THEN geometry.coordinates
    ELSE IF geometry.type = "LineString"
    THEN geometry.coordinates[(Len(geometry.coordinates) \div 2) + 1]
    ELSE IF geometry.type = "Polygon" THEN RingAverage(geometry.coordinates[1])
    ELSE IF geometry.type = "MultiPolygon"
    THEN IF geometry.coordinates[1] # <<>> /\ geometry.coordinates[1][1] # <<>>
         THEN RingAverage(geometry.coordinates[1][1])
         ELSE None
    ELSE None

\* one pass of the loop of create_labels_geojson: the label features so far
LabelAdded(label_features, feature) ==
    IF ~HasName(feature) THEN label_features
    ELSE IF feature.geometry.coordinates = <<>> THEN label_features
    ELSE IF label_pos(feature.geometry) = None THEN label_features
    ELSE Append(label_features,
                GeoFeature("Point", label_pos(feature.geometry), feature.properties))

RECURSIVE LabelFeatures(_, _)
LabelFeatures(features, label_features) ==
    IF features = <<>> THEN label_features
    ELSE LabelFeatures(Tail(features), LabelAdded(label_features, Head(features)))

\* create_labels_geojson(geojson)
create_labels_geojson(geojson) ==
    FeatureCollection(LabelFeatures(geojson.features, <<>>))

\* the feature configs of get_all_features: name, style (color and weight) and
\* create_labels
FeatureConfig(name, style, create_labels) ==
    [name |-> name, style |-> style, create_labels |-> create_labels]
S_bays == <<"b", "a", "y", "s">>
FeatureConfigs ==
    { FeatureConfig(S_bays,
                    [color |-> "#4682B4", weight |-> 1], TRUE),
      FeatureConfig(S_water_bodies,
                    [color |-> "#4682B4", weight |-> 1], TRUE),
      FeatureConfig(<<"r", "i", "v", "e", "r", "s">>,
                    [color |-> "#4682B4", weight |-> 2], FALSE),
      FeatureConfig(S_roads_major,
                    [color |-> "#FFD700", weight |-> 3], FALSE),
      FeatureConfig(<<"r", "o", "a", "d", "s", "_", "r", "e", "s", "i", "d", "e", "n", "t", "i", "a", "l">>,
                    [color |-> "#FF0000", weight |-> 1], FALSE),
      FeatureConfig(<<"r", "a", "i", "l", "w", "a", "y", "s">>,
                    [color |-> "#000000", weight |-> 2], FALSE),
      FeatureConfig(<<"p", "r", "o", "t", "e", "c", "t", "e", "d", "_", "a", "r", "e", "a", "s">>,
                    [color |-> "#228B22", weight |-> 1], FALSE),
      FeatureConfig(<<"c", "i", "t", "i", "e", "s">>,
                    [color |-> "#FF0000", weight |-> 1], FALSE),
      FeatureConfig(<<"c", "o", "a", "s", "t", "l", "i", "n", "e", "s">>,
                    [color |-> "#000080", weight |-> 2], FALSE),
      FeatureConfig(<<"s", "t", "r", "e", "a", "m", "s">>,
                    [color |-> "#4682B4", weight |-> 1], FALSE),
      FeatureConfig(<<"r", "o", "a", "d", "s", "_", "l", "o", "c", "a", "l">>,
                    [color |-> "#FFF8DC", weight |-> 2], FALSE),
      FeatureConfig(S_paths_trails,
                    [color |-> "#CD853F", weight |-> 1], FALSE),
      FeatureConfig(<<"p", "a", "r", "k", "s", "_", "r", "e", "s", "e", "r", "v", "e", "s">>,
                    [color |-> "#228B22", weight |-> 1], FALSE),
      FeatureConfig(<<"m", "o", "u", "n", "t", "a", "i", "n", "_", "p", "e", "a", "k", "s">>,
                    [color |-> "#8B4513", weight |-> 1], FALSE),
      FeatureConfig(S_buildings,
                    [color |-> "#696969", weight |-> 1], FALSE),
      FeatureConfig(<<"g", "o", "l", "f", "_", "c", "o", "u", "r", "s", "e", "s">>,
                    [color |-> "#90EE90", weight |-> 1], FALSE),
      FeatureConfig(<<"s", "k", "i", "_", "r", "e", "s", "o", "r", "t", "s">>,
                    [color |-> "#0066CC", weight |-> 1], FALSE),
      FeatureConfig(<<"s", "k", "i", "_", "r", "u", "n", "s">>,
                    [color |-> "#0000FF", weight |-> 2], FALSE),
      FeatureConfig(<<"s", "k", "i", "_", "l", "i", "f", "t", "s">>,
                    [color |-> "#FF0000", weight |-> 2], FALSE),
      FeatureConfig(<<"a", "i", "r", "p", "o", "r", "t", "s">>,
                    [color |-> "#8B008B", weight |-> 1], FALSE),
      FeatureConfig(<<"r", "u", "n", "w", "a", "y", "s">>,
                    [color |-> "#696969", weight |-> 3], FALSE) }

\* elements with a name among their tags
NamedElements ==
    { Way(13, RingABCA, {<<"name", "Erie">>, <<"natural", "water">>}),
      Way(14, LineABC, {<<"name", "Erie">>, <<"waterway", "canal">>}),
      Way(15, RingABCA, {<<"name", "">>, <<"natural", "water">>}),
      Way(16, SmallRing, {<<"name", "Pond">>}),
      Relation(41, <<Member("outer", SmallOpen), Member("outer", RingABCA)>>,
               {<<"type", "multipolygon">>, <<"name", "Huron">>,
                <<"natural", "water">>}),
      [type |-> "node", id |-> 24, lat |-> 1, lon |-> 2,
       tags |-> {<<"name", "Ontario">>, <<"natural", "water">>}] }

Response(elements) == [elements |-> elements]
Responses ==
    {None} \cup {Response(<<e>>) : e \in Elements \cup NamedElements}
           \cup {Response(<<e, f>>) : e, f \in NamedElements}

\* one pass of "for feature_config in self.selected_features" of
\* DownloadWorker.run, given the response of the query: an exception of the pass
\* is caught and reported, and labels are made when the config asks for them
\* and the layer has features.
DownloadRun(feature_config, data) ==
    /\ download_call = NoValue
    /\ download_call' = [feature_config |-> feature_config, data |-> data]
    /\ \E geojson \in {download_feature(feature_config, data)} :
           /\ download_result' = geojson
           /\ labels_result' =
                  IF /\ ~Raised(geojson) /\ geojson # None
                     /\ Len(geojson.features) > 0
                     /\ feature_config.create_labels
                  THEN create_labels_geojson(geojson)
                  ELSE NoValue
    /\ UNCHANGED <<self, layout0, memo, last, frame_call, frame_result, osm_call,
                   osm_result, pc, layers, li, fi, features_group, labels_group,
                   used_label_names, output_file, exports, labelVars, dialogVars>>

NextDownload ==
    \E feature_config \in FeatureConfigs, data \in Responses :
        DownloadRun(feature_config, data)

\* The feature collections create_labels_geojson is exercised with: those that
\* osm_to_geojson makes, with points included, of up to MaxLabelled elements
\* with and without a name.
MaxLabelled == 3
LabelElements == NamedElements \cup {Way(1, RingABCA, {<<"building", "yes">>})}
LabelElementLists ==
    UNION {[1..n -> LabelElements] : n \in 1..MaxLabelled}
LabelInputs ==
    {osm_to_geojson(elements, TRUE, <<>>) : elements \in LabelElementLists}

\* labels = self.api_handler.create_labels_geojson(geojson): a behaviour follows
\* one call, which reads and writes no state of the handler.
CreateLabels(geojson) ==
    /\ labels_call = NoValue
    /\ labels_call' = geojson
    /\ labels_made' = create_labels_geojson(geojson)
    /\ UNCHANGED <<self, layout0, memo, last, frame_call, frame_result, osm_call,
                   osm_result, download_call, download_result, labels_result,
                   pc, layers, li, fi, features_group, labels_group,
                   used_label_names, output_file, exports, dialogVars>>

NextLabels ==
    \E geojson \in LabelInputs : CreateLabels(geojson)

-----------------------------------------------------------------------------
(* osm_downloader_dialog.py: the download controls of OSMDownloaderDialog   *)
(* and the DownloadWorker threads.  A worker emits its signals from its own *)
(* thread; they are queued for the dialog's thread, which handles them one  *)
(* at a time in the order of emission.  The progress signal only writes to  *)
(* the log and is left out.                                                 *)

\* everything but the dialog and its workers
coreVars == <<self, layout0, memo, last, frame_call, frame_result, osm_call,
              osm_result, download_call, download_result, labels_result,
              labelVars, pc, layers, li, fi, features_group, labels_group,
              used_label_names, output_file, exports>>

S_labels == <<"_", "l", "a", "b", "e", "l", "s">>

\* a signal of a worker, as it is queued: layer_ready, error or finished
Signal(signal, worker, name) == [signal |-> signal, worker |-> worker, name |-> name]

\* the body of "for feature_config in self.selected_features", from the return
\* of download_feature on: the signals the pass emits
PassSignals(worker, feature_config, geojson) ==
    IF Raised(geojson) THEN <<Signal("error", worker, feature_config.name)>>
    ELSE IF geojson = None THEN <<>>
    ELSE IF Len(geojson.features) = 0 THEN <<>>
    ELSE IF /\ feature_config.create_labels
            /\ create_labels_geojson(geojson).features # <<>>
    THEN <<Signal("layer_ready", worker, feature_config.name),
           Signal("layer_ready", worker, feature_config.name \o S_labels)>>
    ELSE <<Signal("layer_ready", worker, feature_config.name)>>

\* DownloadWorker(place_name, selected_features, bbox): the thread before
\* run(); k is the position of run in selected_features, responses and emitted
\* are the history of what query_overpass returned and of the signals emitted
DownloadWorker(selected_features) ==
    [selected_features |-> selected_features, k |-> 1, responses |-> <<>>,
     emitted |-> <<>>, handled |-> FALSE]

\* A faulty pass, which leaves the loop when download_feature raised
RunPass_StopsAtError(worker, thread, data) ==
    [thread EXCEPT
        !.k = IF Raised(download_feature(thread.selected_features[thread.k], data))
              THEN Len(thread.selected_features) + 1
              ELSE @ + 1,
        !.responses = Append(@, data),
        !.emitted = @ \o PassSignals(worker, thread.selected_features[thread.k],
                             download_feature(thread.selected_features[thread.k],
                                              data))]

\* one pass of the loop of run, given the response of the query
RunPass(worker, thread, data) ==
    [thread EXCEPT
        !.k = @ + 1,
        !.responses = Append(@, data),
        !.emitted = @ \o PassSignals(worker, thread.selected_features[thread.k],
                             download_feature(thread.selected_features[thread.k],
                                              data))]

\* the selections and the responses the dialog is exercised with, and those a
\* single run of a worker is exercised with
ConfigNamed(name) == CHOOSE feature_config \in FeatureConfigs :
                         feature_config.name = name
ElementWithId(id) == CHOOSE element \in Elements \cup NamedElements :
                         element.id = id
DialogSelections == { <<>>, <<ConfigNamed(S_bays)>> }
DialogResponses ==
    { None, Response(<<ElementWithId(13)>>), Response(<<ElementWithId(9)>>) }
RunSelections ==
    { <<>>, <<ConfigNamed(S_bays), ConfigNamed(S_roads_major)>>,
      <<ConfigNamed(S_roads_major), ConfigNamed(S_bays)>> }
RunResponses ==
    { None, Response(<<ElementWithId(13)>>), Response(<<ElementWithId(1)>>),
      Response(<<ElementWithId(9)>>) }
FoundBBox == [south |-> R(-1), west |-> R(-1), north |-> R(1), east |-> R(1)]

\* DownloadWorker.run: one pass of the loop
WorkerPass(worker, data) ==
    /\ worker \in DOMAIN workers
    /\ workers[worker].k <= Len(workers[worker].selected_features)
    /\ \E thread \in {RunPass(worker, workers[worker], data)} :
           /\ workers' = [workers EXCEPT ![worker] = thread]
           /\ events' = events \o SubSeq(thread.emitted,
                                         Len(workers[worker].emitted) + 1,
                                         Len(thread.emitted))
    /\ UNCHANGED <<download_btn, search_btn, use_canvas_extent, dialog_bbox,
                   selected_items, downloaded_layers, project_layers, coreVars>>

\* DownloadWorker.run: self.finished.emit() after the loop
WorkerFinished(worker) ==
    /\ worker \in DOMAIN workers
    /\ workers[worker].k = Len(workers[worker].selected_features) + 1
    /\ workers' = [workers EXCEPT
                      ![worker].k = @ + 1,
                      ![worker].emitted = Append(@, Signal("finished", worker, <<>>))]
    /\ events' = Append(events, Signal("finished", worker, <<>>))
    /\ UNCHANGED <<download_btn, search_btn, use_canvas_extent, dialog_bbox,
                   selected_items, downloaded_layers, project_layers, coreVars>>

\* search_place, on a click of the enabled search button with a place name
\* typed in; found is what api_handler.search_place returned
search_place(found) ==
    /\ search_btn
    /\ dialog_bbox' = found
    /\ download_btn' = (found # None)
    /\ UNCHANGED <<search_btn, use_canvas_extent, selected_items,
                   downloaded_layers, project_layers, workers, events, coreVars>>

\* on_canvas_extent_changed, on a click of the checkbox
on_canvas_extent_changed ==
    /\ use_canvas_extent' = ~use_canvas_extent
    /\ download_btn' = IF use_canvas_extent'
                       THEN TRUE
                       ELSE IF dialog_bbox = None THEN FALSE ELSE download_btn
    /\ UNCHANGED <<search_btn, dialog_bbox, selected_items, downloaded_layers,
                   project_layers, workers, events, coreVars>>

\* the user changes the selection of the feature list
SelectFeatures(items) ==
    /\ items # selected_items
    /\ selected_items' = items
    /\ UNCHANGED <<download_btn, search_btn, use_canvas_extent, dialog_bbox,
                   downloaded_layers, project_layers, workers, events, coreVars>>

\* start_download, on a click of the enabled download button; without a bbox
\* or without a selection it returns after a warning
start_download ==
    /\ download_btn
    /\ Len(workers) < MaxDownloads
    /\ use_canvas_extent \/ dialog_bbox # None
    /\ selected_items # <<>>
    /\ downloaded_layers' = <<>>
    /\ download_btn' = FALSE
    /\ search_btn' = FALSE
    /\ workers' = Append(workers, DownloadWorker(selected_items))
    /\ UNCHANGED <<use_canvas_extent, dialog_bbox, selected_items,
                   project_layers, events, coreVars>>

\* add_layer_immediately, on a layer_ready signal; valid is layer.isValid() of
\* the layer add_layer_to_qgis made
add_layer_immediately(valid) ==
    /\ events # <<>>
    /\ Head(events).signal = "layer_ready"
    /\ events' = Tail(events)
    /\ IF valid
       THEN /\ project_layers' = project_layers \cup
                    {[worker |-> Head(events).worker, name |-> Head(events).name]}
            /\ downloaded_layers' = Append(downloaded_layers,
                    [worker |-> Head(events).worker, name |-> Head(events).name])
       ELSE UNCHANGED <<project_layers, downloaded_layers>>
    /\ UNCHANGED <<download_btn, search_btn, use_canvas_extent, dialog_bbox,
                   selected_items, workers, coreVars>>

\* download_finished, on a finished signal
download_finished ==
    /\ events # <<>>
    /\ Head(events).signal = "finished"
    /\ events' = Tail(events)
    /\ download_btn' = TRUE
    /\ search_btn' = TRUE
    /\ workers' = [workers EXCEPT ![Head(events).worker].handled = TRUE]
    /\ UNCHANGED <<use_canvas_extent, dialog_bbox, selected_items,
                   downloaded_layers, project_layers, coreVars>>

\* download_error, on an error signal
download_error ==
    /\ events # <<>>
    /\ Head(events).signal = "error"
    /\ events' = Tail(events)
    /\ UNCHANGED <<download_btn, search_btn, use_canvas_extent, dialog_bbox,
                   selected_items, downloaded_layers, project_layers, workers,
                   coreVars>>

\* clear_map, answered Yes
clear_map ==
    /\ downloaded_layers # <<>>
    /\ project_layers' = project_layers \
                             {downloaded_layers[i] : i \in DOMAIN downloaded_layers}
    /\ downloaded_layers' = <<>>
    /\ UNCHANGED <<download_btn, search_btn, use_canvas_extent, dialog_bbox,
                   selected_items, workers, events, coreVars>>

\* closeEvent
closeEvent ==
    /\ downloaded_layers # <<>> \/ dialog_bbox # None
    /\ project_layers' = project_layers \
                             {downloaded_layers[i] : i \in DOMAIN downloaded_layers}
    /\ downloaded_layers' = <<>>
    /\ dialog_bbox' = None
    /\ UNCHANGED <<download_btn, search_btn, use_canvas_extent, selected_items,
                   workers, events, coreVars>>

\* the steps of a worker thread, and of the dialog's thread on queued signals
WorkerStep(worker, responses) ==
    \/ \E data \in responses : WorkerPass(worker, data)
    \/ WorkerFinished(worker)
HandleSignal ==
    \/ \E valid \in BOOLEAN : add_layer_immediately(valid)
    \/ download_finished
    \/ download_error

NextDialog ==
    \/ \E found \in {None, FoundBBox} : search_place(found)
    \/ on_canvas_extent_changed
    \/ \E items \in DialogSelections : SelectFeatures(items)
    \/ start_download
    \/ \E worker \in 1..MaxDownloads : WorkerStep(worker, DialogResponses)
    \/ HandleSignal
    \/ clear_map
    \/ closeEvent

\* downloads of a found place, one after the other
NextRun ==
    \/ \E found \in {None, FoundBBox} : search_place(found)
    \/ \E items \in RunSelections : SelectFeatures(items)
    \/ start_download
    \/ \E worker \in 1..MaxDownloads : WorkerStep(worker, RunResponses)
    \/ HandleSignal

NextProj ==
    \/ \E bbox \in BBoxes, paper_size \in PaperNames,
          orientation \in Orientations, margin_mm \in Margins :
            Construct(bbox, paper_size, orientation, margin_mm)
    \/ \E pt \in Corners(self), keep \in BOOLEAN :
            Project(pt[1], pt[2], keep)

Init ==
    /\ self = NoObject
    /\ layout0 = NoValue
    /\ memo = NoValue
    /\ last = NoValue
    /\ frame_call = NoValue
    /\ frame_result = NoValue
    /\ osm_call = NoValue
    /\ osm_result = NoValue
    /\ download_call = NoValue
    /\ download_result = NoValue
    /\ labels_result = NoValue
    /\ labels_call = NoValue
    /\ labels_made = NoValue
    /\ download_btn = FALSE
    /\ search_btn = TRUE
    /\ use_canvas_extent = FALSE
    /\ dialog_bbox = None
    /\ selected_items = <<>>
    /\ downloaded_layers = <<>>
    /\ project_layers = {}
    /\ workers = <<>>
    /\ events = <<>>
    /\ pc = "idle"
    /\ layers = <<>>
    /\ li = 0
    /\ fi = 0
    /\ features_group = <<>>
    /\ labels_group = <<>>
    /\ used_label_names = {}
    /\ output_file = NoValue
    /\ exports = 0

NextSvg == NextProj \/ NextExport

SpecSvg == Init /\ [][NextSvg]_vars

SpecFrame == Init /\ [][NextFrame]_vars

SpecGeo == Init /\ [][NextGeo]_vars

SpecDownload == Init /\ [][NextDownload]_vars

SpecLabels == Init /\ [][NextLabels]_vars

SpecDialog == Init /\ [][NextDialog]_vars

\* A worker thread that can step does step, and the event loop of the dialog's
\* thread handles every queued signal.
SpecRun ==
    /\ Init /\ [][NextRun]_vars
    /\ \A worker \in 1..MaxDownloads : WF_vars(WorkerStep(worker, RunResponses))
    /\ WF_vars(HandleSignal)
-----------------------------------------------------------------------------
(* Properties of the projector and the exporter.                            *)

\* the instance under observation was built for a bbox with south < north and
\* west < east, a supported paper size and a fixed orientation
SupportedLayout ==
    /\ layout0 # NoValue
    /\ ValidBBox(layout0.args[1])
    /\ layout0.args[2] \in DOMAIN PAPER_SIZES
    /\ layout0.args[3] \in {"portrait", "landscape"}

InContentX(x) ==
    RLeq(self.margin_px, x) /\ RLeq(x, RAdd(self.margin_px, self.draw_width))
InContentY(y) ==
    RLeq(self.margin_px, y) /\ RLeq(y, RAdd(self.margin_px, self.draw_height))

\* C1: for a bbox with south < north and west < east, a supported paper size, any
\* margin and either fixed orientation, each projected corner of the bbox has
\* x in [margin_px, margin_px + draw_width] and
\* y in [margin_px, margin_px + draw_height].
C1_CornersInContentArea ==
    (SupportedLayout /\ last # NoValue) =>
        (InContentX(last[3]) /\ InContentY(last[4]))

\* a corner of a supported layout has been projected and did land in the
\* content area (the aspect of the bbox equals the aspect of the content area)
C1_SomeCornerInside ==
    /\ SupportedLayout /\ last # NoValue
    /\ last[1] = self.east /\ last[2] = self.south
    /\ InContentX(last[3]) /\ InContentY(last[4])

\* C6: an instance built with a paper-size name outside PAPER_SIZES is the
\* instance built with 'A4' for the same bbox, orientation and margin (page and
\* content dimensions, scale and offsets included), and for a bbox with
\* south < north and west < east its construction does not fail.
C6_UnknownPaperIsA4 ==
    (layout0 # NoValue /\ layout0.args[2] \notin DOMAIN PAPER_SIZES) =>
        /\ layout0.attrs = SVGExporter(layout0.args[1], "A4", layout0.args[3],
                                       layout0.args[4])
        /\ ValidBBox(layout0.args[1]) => IsExporter(layout0.attrs)

C6_UnknownPaperBuilt ==
    /\ layout0 # NoValue
    /\ layout0.args[2] = "Foo"
    /\ ValidBBox(layout0.args[1])
    /\ IsExporter(self)
    /\ self.page_width_mm = 210 /\ self.page_height_mm = 297

\* C7: the attributes of an instance stay as the constructor left them through
\* every projection and every step of an export, and a point projected twice
\* through one instance, whatever was projected in between, gets the same pixel
\* coordinates.
C7_ProjectionPure ==
    /\ layout0 # NoValue => self = layout0.attrs
    /\ (memo # NoValue /\ last # NoValue) =>
           /\ memo[1] = last[1] => memo[3] = last[3]
           /\ memo[2] = last[2] => memo[4] = last[4]

C7_SamePointTwice ==
    /\ memo # NoValue /\ last # NoValue
    /\ memo[1] = last[1] /\ memo[2] = last[2]
    /\ self = layout0.attrs

\* the label texts of the pass so far
LabelTexts == {labels_group[i].text : i \in DOMAIN labels_group}

\* the features of the layers of the pass that get a label: point and polygon
\* features of valid water-body layers with a usable name
LabelledFeatures ==
    {<<l, f>> \in {<<l, f>> \in (DOMAIN layers) \X (1..5) :
                       f \in DOMAIN layers[l].features} :
        /\ layers[l].valid
        /\ is_water_body(layers[l].name)
        /\ layers[l].features[f].geometry.type
               \in {"Point", "Polygon", "MultiPolygon"}
        /\ LabelName(layers[l].features[f]) # NoValue}

\* two features of different layers of the pass with the same usable name
SameNameInTwoLayers(l1, f1, l2, f2) ==
    /\ l1 \in DOMAIN layers /\ l2 \in DOMAIN layers /\ l1 # l2
    /\ f1 \in DOMAIN layers[l1].features
    /\ f2 \in DOMAIN layers[l2].features
    /\ LabelName(layers[l1].features[f1]) # NoValue
    /\ LabelName(layers[l1].features[f1]) = LabelName(layers[l2].features[f2])

TextElementsNamed(name_str) ==
    {i \in DOMAIN labels_group : labels_group[i].text = name_str}

BuiltInOrder ==
    /\ layout0 # NoValue
    /\ ValidBBox(layout0.args[1])
    /\ IsExporter(self)

\* corrected_lon_range of __init__, from the attributes kept
CorrectedLonRange ==
    RMul(self.lon_range, CosDeg(RDiv(RAdd(self.north, self.south), R(2))))

\* the extent in pixels of the projected bbox
ProjectedWidth ==
    RSub(lon_to_x(self, self.east).ret, lon_to_x(self, self.west).ret)
ProjectedHeight ==
    RSub(lat_to_y(self, self.south).ret, lat_to_y(self, self.north).ret)

\* C13: the projection applies one uniform scale: for every bbox, paper size
\* and orientation the projected bbox is corrected_lon_range x scale pixels wide
\* and lat_range x scale pixels high.
C13_UniformScale ==
    BuiltInOrder =>
        /\ ProjectedWidth = RMul(CorrectedLonRange, self.scale)
        /\ ProjectedHeight = RMul(self.lat_range, self.scale)

\* an instance whose bbox has the aspect of the content area does project with
\* one scale
C13_EqualAspectsUniform ==
    /\ BuiltInOrder
    /\ RMul(CorrectedLonRange, self.draw_height)
           = RMul(self.lat_range, self.draw_width)
    /\ ProjectedWidth = RMul(CorrectedLonRange, self.scale)
    /\ ProjectedHeight = RMul(self.lat_range, self.scale)

\* the scaled bbox, placed at the offsets, lies inside the content area
ScaledBBoxFits ==
    /\ RLeq(self.margin_px, self.x_offset)
    /\ RLeq(self.margin_px, self.y_offset)
    /\ RLeq(RAdd(self.x_offset, RMul(CorrectedLonRange, self.scale)),
            RAdd(self.margin_px, self.draw_width))
    /\ RLeq(RAdd(self.y_offset, RMul(self.lat_range, self.scale)),
            RAdd(self.margin_px, self.draw_height))

\* C14: the scale is the smaller of content_width / corrected_lon_range and
\* content_height / lat_range (both in pixels), and the bbox scaled by it and
\* placed at the offsets lies inside the content area.
C14_ScaleIsSmallerAndFits ==
    (BuiltInOrder /\ RPos(CorrectedLonRange)) =>
        /\ self.scale = RMin(RDiv(self.draw_width, CorrectedLonRange),
                             RDiv(self.draw_height, self.lat_range))
        /\ ScaledBBoxFits

\* instances limited by the width and by the height have been built: the two
\* quotients differ
C14_WidthLimitedBuilt ==
    /\ BuiltInOrder /\ RPos(CorrectedLonRange)
    /\ RLess(RDiv(self.draw_width, CorrectedLonRange),
             RDiv(self.draw_height, self.lat_range))
    /\ self.scale = RDiv(self.draw_width, CorrectedLonRange)
    /\ RLess(self.margin_px, self.y_offset)

\* C14, with the larger of the two quotients for the scale
C14_ScaleIsLargerAndFits ==
    (BuiltInOrder /\ RPos(CorrectedLonRange)) =>
        /\ self.scale = RMax(RDiv(self.draw_width, CorrectedLonRange),
                             RDiv(self.draw_height, self.lat_range))
        /\ ScaledBBoxFits

\* the valid layers of the pass
ValidLayers == {l \in DOMAIN layers : layers[l].valid}

\* C15: when emitting one feature fails, the feature is skipped and every later
\* feature and layer is still emitted, for layers that need a transform and
\* for layers in WGS84 alike: no export is abandoned, and a written document
\* has a group for every valid layer.
C15_FailedFeatureSkipped ==
    /\ pc # "raised"
    /\ pc = "written" => Len(features_group) = Cardinality(ValidLayers)

\* a layer that needs a transform had a failing feature, which was skipped, and
\* the layer after it was emitted into the written document
C15_SkippedUnderTransform ==
    /\ pc = "written"
    /\ Len(layers) = 2
    /\ layers[1] = BaysLayer
    /\ Len(features_group) = 2
    /\ Len(features_group[1].children) < Len(layers[1].features)
    /\ Len(features_group[2].children) > 0

\* C16: the export writes the output file only after every layer and feature
\* has been processed: while layers are being processed, and in every run that
\* a failure abandoned, nothing has been written; what is written is the whole
\* document.
C16_WrittenOnlyWhenComplete ==
    /\ pc \in {"layers", "raised"} => output_file = NoValue
    /\ output_file # NoValue =>
           /\ pc = "written"
           /\ li = Len(layers) + 1
           /\ output_file = Document(self, features_group, labels_group)

\* an export was abandoned by a failure in its second layer, after the first
\* layer had been emitted, and wrote nothing
C16_AbandonedAfterFirstLayer ==
    /\ pc = "raised"
    /\ li = 2
    /\ Len(features_group) = 2
    /\ Len(features_group[1].children) > 0
    /\ output_file = NoValue

\* the stroked paths emitted so far: line paths and polygon outlines
StrokedPaths ==
    UNION {{features_group[g].children[c] :
                c \in {k \in DOMAIN features_group[g].children :
                          /\ features_group[g].children[k].tag = "path"
                          /\ features_group[g].children[k].stroke # "none"}} :
              g \in DOMAIN features_group}

\* C18: every line path and every polygon outline path emitted into the
\* document has stroke width at least 1, whatever width the layer's style
\* configures.
C18_StrokeAtLeastOne ==
    \A path \in StrokedPaths : RLeq(R(1), path.stroke_width)

\* a line of a layer styled with a width under 0.5 was emitted with width 1
C18_HairlineRaised ==
    /\ pc = "layers" /\ li \in DOMAIN layers
    /\ layers[li] = StreamsLayer
    /\ \E path \in StrokedPaths : ~path.closed /\ path.stroke_width = R(1)

\* the features of the pass in a valid water-body layer with a usable name
\* and a geometry of one of the four kinds
NamedInWaterLayers ==
    {<<l, f>> \in {<<l, f>> \in (DOMAIN layers) \X (1..5) :
                       f \in DOMAIN layers[l].features} :
        /\ layers[l].valid
        /\ is_water_body(layers[l].name)
        /\ layers[l].features[f].geometry.type
               \in {"Point", "LineString", "Polygon", "MultiPolygon"}
        /\ LabelName(layers[l].features[f]) # NoValue}

\* the average of coordinate k over the vertices of a ring
RECURSIVE RingTotal(_, _)
RingTotal(ring, k) ==
    IF ring = <<>> THEN R(0) ELSE RAdd(ring[1][k], RingTotal(Tail(ring), k))
VertexAverage(ring, k) == RDiv(RingTotal(ring, k), R(Len(ring)))

\* the pass begins with a named polygon of a water-body layer in WGS84
PolygonFirst ==
    /\ Len(layers) >= 1
    /\ layers[1].valid /\ layers[1].crs = WGS84
    /\ is_water_body(layers[1].name)
    /\ Len(layers[1].features) >= 1
    /\ layers[1].features[1].geometry.type = "Polygon"
    /\ LabelName(layers[1].features[1]) # NoValue

\* C19: a label is produced for a feature exactly when its layer is a
\* water-body layer, it has a non-empty name and the name has not been emitted
\* in this pass, for every geometry kind (Point, LineString, Polygon,
\* MultiPolygon); the label of a polygon is placed at the vertex average of its
\* outer ring.
C19_LabelEveryKindAtVertexAverage ==
    pc = "written" =>
        /\ LabelTexts = {LabelName(layers[p[1]].features[p[2]]) :
                            p \in NamedInWaterLayers}
        /\ PolygonFirst =>
               LET ring == layers[1].features[1].geometry.coordinates[1]
               IN  /\ labels_group[1].x =
                          Fmt2(lon_to_x(self, VertexAverage(ring, 1)).ret)
                   /\ labels_group[1].y =
                          Fmt2(lat_to_y(self, VertexAverage(ring, 2)).ret)

\* a pass labelled a point and a polygon of water-body layers, once each name
C19_PointAndPolygonLabelled ==
    /\ pc = "written"
    /\ PolygonFirst
    /\ Len(labels_group) = 2
    /\ labels_group[1].text # labels_group[2].text

-----------------------------------------------------------------------------
(* Properties of the frame builder.                                         *)

\* the call under observation has a bbox of four coordinates in order
FrameCallInOrder ==
    /\ frame_call # NoValue
    /\ frame_call.bbox # NoBBox
    /\ Len(frame_call.bbox) = 4
    /\ RLess(frame_call.bbox[1], frame_call.bbox[3])
    /\ RLess(frame_call.bbox[2], frame_call.bbox[4])

\* the least and the greatest coordinate k of the points of a ring
RingMin(ring, k) ==
    CHOOSE v \in {ring[i][k] : i \in DOMAIN ring} :
        \A i \in DOMAIN ring : ~WideLess(ring[i][k], v)
RingMax(ring, k) ==
    CHOOSE v \in {ring[i][k] : i \in DOMAIN ring} :
        \A i \in DOMAIN ring : ~WideLess(v, ring[i][k])

\* C2: for a bbox with south < north and west < east and either orientation the
\* frame is one ring of exactly 5 points in the order SW, SE, NE, NW, SW, its
\* first point equal to its last, and the bounding box of the ring is centered
\* on ((west + east) / 2, (south + north) / 2).
C2_FrameRingCentered ==
    FrameCallInOrder =>
        /\ ~Raised(frame_result)
        /\ Len(frame_result.coordinates) = 1
        /\ LET ring == frame_result.coordinates[1]
               bbox == frame_call.bbox
           IN  /\ Len(ring) = 5
               /\ ring[1] = ring[5]
               /\ WideLess(RingMin(ring, 1), RingMax(ring, 1))
               /\ WideLess(RingMin(ring, 2), RingMax(ring, 2))
               /\ ring[1] = <<RingMin(ring, 1), RingMin(ring, 2)>>
               /\ ring[2] = <<RingMax(ring, 1), RingMin(ring, 2)>>
               /\ ring[3] = <<RingMax(ring, 1), RingMax(ring, 2)>>
               /\ ring[4] = <<RingMin(ring, 1), RingMax(ring, 2)>>
               /\ WideHalf(WideAdd(RingMin(ring, 1), RingMax(ring, 1)))
                      = Wide(RDiv(RAdd(bbox[2], bbox[4]), R(2)))
               /\ WideHalf(WideAdd(RingMin(ring, 2), RingMax(ring, 2)))
                      = Wide(RDiv(RAdd(bbox[1], bbox[3]), R(2)))

\* a landscape frame has been built around a center at 60 degrees north
C2_LandscapeFrameBuilt ==
    /\ FrameCallInOrder
    /\ frame_call.orientation = S_landscape
    /\ RAdd(frame_call.bbox[1], frame_call.bbox[3]) = R(120)
    /\ ~Raised(frame_result)
    /\ Len(frame_result.coordinates[1]) = 5

\* C8: a call with a bbox that is None, not of length 4, or has south >= north
\* or west >= east raises ValueError and so returns no geometry.
C8_InvalidBBoxRejected ==
    (frame_call # NoValue /\ ~FrameCallInOrder) => frame_result = ValueError

\* calls with south = north, and with a bbox of three coordinates, were rejected
C8_EqualLatitudesRejected ==
    /\ frame_call # NoValue
    /\ frame_call.bbox # NoBBox /\ Len(frame_call.bbox) = 4
    /\ frame_call.bbox[1] = frame_call.bbox[3]
    /\ RLess(frame_call.bbox[2], frame_call.bbox[4])
    /\ frame_result = ValueError

-----------------------------------------------------------------------------
(* Properties of the OSM-element conversion.                                *)

\* the call under observation converts one element
OneElement == osm_call # NoValue /\ Len(osm_call.elements) = 1
TheElement == osm_call.elements[1]

\* a geometry list that is not empty and holds points only
PointList(geometry) ==
    /\ geometry # <<>>
    /\ \A i \in DOMAIN geometry :
           geometry[i] # JsonNull /\ DOMAIN geometry[i] = {"lon", "lat"}
CoordinatesOf(geometry) ==
    [i \in DOMAIN geometry |-> <<geometry[i].lon, geometry[i].lat>>]

\* the call converts one way that has a non-empty geometry of points
OneWay ==
    /\ OneElement
    /\ TheElement.type = "way"
    /\ "geometry" \in DOMAIN TheElement
    /\ PointList(TheElement.geometry)
TheTags == IF "tags" \in DOMAIN TheElement THEN TheElement.tags ELSE {}

\* the categories whose name holds 'roads' or 'trails'
LineOnlyCategories == {S_roads_major, S_paths_trails}

\* the one feature of the result is the way as a line, or as a polygon
ResultIsLine ==
    /\ ~Raised(osm_result)
    /\ osm_result.features =
           <<GeoFeature("LineString", CoordinatesOf(TheElement.geometry), TheTags)>>
ResultIsPolygon ==
    /\ ~Raised(osm_result)
    /\ osm_result.features =
           <<GeoFeature("Polygon", <<CoordinatesOf(TheElement.geometry)>>, TheTags)>>

\* a ring of at least 3 distinct points whose first point is its last
ClosedRing(coords) ==
    /\ coords[1] = coords[Len(coords)]
    /\ Cardinality({coords[i] : i \in DOMAIN coords}) >= 3

\* C3: a way in a line-only category (roads, trails) is a LineString whatever
\* its tags, closed or not; a closed ring with a building tag in another
\* category is a Polygon.
C3_LineOnlyStaysLine ==
    OneWay =>
        /\ osm_call.feature_name \in LineOnlyCategories => ResultIsLine
        /\ (/\ osm_call.feature_name \notin LineOnlyCategories
            /\ ClosedRing(CoordinatesOf(TheElement.geometry))
            /\ \E kv \in TheTags : kv[1] = "building") => ResultIsPolygon

\* a closed ring with a building tag was converted in a roads category
C3_ClosedBuildingInRoads ==
    /\ OneWay
    /\ osm_call.feature_name = S_roads_major
    /\ ClosedRing(CoordinatesOf(TheElement.geometry))
    /\ \E kv \in TheTags : kv[1] = "building"
    /\ ResultIsLine

\* C9: in a category that is not line-only, a way with non-empty geometry is a
\* Polygon exactly when its ring is closed (at least 3 distinct points, first
\* equal to last) and its tags have area=yes or one of the keys building,
\* landuse, natural, leisure, amenity; otherwise it is a LineString with the
\* same coordinates.
C9_PolygonIffClosedArea ==
    (OneWay /\ osm_call.feature_name \notin LineOnlyCategories) =>
        IF /\ ClosedRing(CoordinatesOf(TheElement.geometry))
           /\ \/ <<"area", "yes">> \in TheTags
              \/ \E kv \in TheTags :
                     kv[1] \in {"building", "landuse", "natural", "leisure",
                                "amenity"}
        THEN ResultIsPolygon
        ELSE ResultIsLine

\* a closed ring with an area tag became a Polygon outside the line-only
\* categories
C9_ClosedAreaIsPolygon ==
    /\ OneWay /\ osm_call.feature_name = S_buildings
    /\ ClosedRing(CoordinatesOf(TheElement.geometry))
    /\ <<"area", "yes">> \in TheTags
    /\ ResultIsPolygon

\* the call converts one multipolygon or boundary relation all of whose
\* members are ways with a role and a non-empty geometry of points
OneRelation ==
    /\ OneElement
    /\ TheElement.type = "relation"
    /\ "members" \in DOMAIN TheElement
    /\ \E kv \in TheTags : kv[1] = "type" /\ kv[2] \in {"multipolygon", "boundary"}
    /\ \A m \in DOMAIN TheElement.members :
           /\ TheElement.members[m].type = "way"
           /\ "role" \in DOMAIN TheElement.members[m]
           /\ "geometry" \in DOMAIN TheElement.members[m]
           /\ PointList(TheElement.members[m].geometry)

\* the members that are inner rings, and the others, in member order
InnerMembers ==
    SelectSeq(TheElement.members, LAMBDA member : member.role = "inner")
OuterMembers ==
    SelectSeq(TheElement.members, LAMBDA member : member.role # "inner")

\* ring is the member's coordinates, followed by the first of them when the
\* member came unclosed
ClosedFrom(ring, member) ==
    /\ ring[1] = ring[Len(ring)]
    /\ LET given == CoordinatesOf(member.geometry)
       IN  IF given[1] = given[Len(given)] THEN ring = given
           ELSE ring = Append(given, given[1])

\* C4: a multipolygon or boundary relation with exactly one outer ring and
\* k >= 1 inner rings is exactly one Polygon feature of 1 + k rings: the outer
\* ring first, then the inner rings in member order, each ring closed.
C4_OuterThenInnerRings ==
    (OneRelation /\ Len(OuterMembers) = 1 /\ Len(InnerMembers) >= 1) =>
        /\ ~Raised(osm_result)
        /\ Len(osm_result.features) = 1
        /\ osm_result.features[1].geometry.type = "Polygon"
        /\ osm_result.features[1].properties = TheTags
        /\ LET rings == osm_result.features[1].geometry.coordinates
           IN  /\ Len(rings) = 1 + Len(InnerMembers)
               /\ ClosedFrom(rings[1], OuterMembers[1])
               /\ \A k \in DOMAIN InnerMembers :
                      ClosedFrom(rings[1 + k], InnerMembers[k])

\* a relation with one unclosed outer ring and two inner rings, one of them
\* unclosed, was converted
C4_TwoHolesConverted ==
    /\ OneRelation /\ Len(OuterMembers) = 1 /\ Len(InnerMembers) = 2
    /\ \E k \in 1..2 : InnerMembers[k].geometry = SmallOpen
    /\ ~Raised(osm_result)
    /\ Len(osm_result.features[1].geometry.coordinates) = 3

\* the features of the elements that element_to_feature converts, in order
RECURSIVE Converted(_)
Converted(elements) ==
    IF elements = <<>> THEN <<>>
    ELSE LET feature == element_to_feature(Head(elements), {},
                            osm_call.include_points, osm_call.feature_name)
         IN  IF Raised(feature) \/ feature = None THEN Converted(Tail(elements))
             ELSE <<feature>> \o Converted(Tail(elements))

\* C10: for any element list the conversion returns a feature collection and
\* raises nothing; an element that cannot be converted contributes no feature
\* and every convertible element after it is still converted.
C10_NeverRaises ==
    osm_call # NoValue =>
        /\ ~Raised(osm_result)
        /\ osm_result.features = Converted(osm_call.elements)

\* a list with an element without geometry and an element with an empty
\* geometry before a convertible one was converted without an exception
C10_UnconvertibleSkipped ==
    /\ osm_call # NoValue /\ Len(osm_call.elements) = 2
    /\ osm_call.elements[1].type = "way"
    /\ "geometry" \notin DOMAIN osm_call.elements[1]
    /\ ~Raised(osm_result)
    /\ Len(osm_result.features) = 1

\* the rings of a feature's geometry that bound a polygon
PolygonRings(feature) ==
    IF feature.geometry.type = "Polygon"
    THEN {feature.geometry.coordinates[r] :
              r \in DOMAIN feature.geometry.coordinates}
    ELSE IF feature.geometry.type = "MultiPolygon"
    THEN UNION {{feature.geometry.coordinates[q][r] :
                     r \in DOMAIN feature.geometry.coordinates[q]} :
                   q \in DOMAIN feature.geometry.coordinates}
    ELSE {}

\* C11: every ring of every Polygon or MultiPolygon feature the conversion
\* produces, from a way or a relation, outer or inner, has its first coordinate
\* equal to its last, also when the rings of relation members arrive unclosed.
C11_PolygonRingsClosed ==
    (osm_call # NoValue /\ ~Raised(osm_result)) =>
        \A i \in DOMAIN osm_result.features :
            \A ring \in PolygonRings(osm_result.features[i]) :
                Len(ring) > 0 /\ ring[1] = ring[Len(ring)]

\* a relation with two outer members, one of them unclosed, became a
\* MultiPolygon, next to a way that became a Polygon
C11_UnclosedOuterInMultiPolygon ==
    /\ osm_call # NoValue /\ Len(osm_call.elements) = 2
    /\ osm_call.elements[1].type = "relation"
    /\ "members" \in DOMAIN osm_call.elements[1]
    /\ \E m \in DOMAIN osm_call.elements[1].members :
           osm_call.elements[1].members[m] = Member("outer", SmallOpen)
    /\ ~Raised(osm_result)
    /\ Len(osm_result.features) = 2
    /\ osm_result.features[1].geometry.type = "MultiPolygon"
    /\ osm_result.features[2].geometry.type = "Polygon"

-----------------------------------------------------------------------------
(* Properties of the download pass.                                         *)

\* C12: every feature create_labels_geojson returns is a Point whose property
\* mapping holds only the name property of its source feature; no other source
\* tag is carried over.
C12_LabelsCarryOnlyName ==
    labels_result # NoValue =>
        \A i \in DOMAIN labels_result.features :
            /\ labels_result.features[i].geometry.type = "Point"
            /\ \A kv \in labels_result.features[i].properties : kv[1] = "name"

\* label points were made, each a Point that carries the name of its source
C12_LabelPointsMade ==
    /\ labels_result # NoValue
    /\ Len(labels_result.features) = 2
    /\ \A i \in 1..2 :
           /\ labels_result.features[i].geometry.type = "Point"
           /\ \E kv \in download_result.features[i].properties :
                  /\ kv[1] = "name"
                  /\ kv \in labels_result.features[i].properties

\* the pass converted a response of one element into one feature
OneDownloaded ==
    /\ download_call # NoValue
    /\ download_call.data # None
    /\ Len(download_call.data.elements) = 1
    /\ ~Raised(download_result)
    /\ Len(download_result.features) = 1
SourceTags ==
    IF "tags" \in DOMAIN download_call.data.elements[1]
    THEN download_call.data.elements[1].tags
    ELSE {}

\* C17: every feature that osm_to_geojson followed by download_feature produces
\* has a property mapping equal to the tag mapping of its source element: no
\* key is added, removed or changed.
C17_PropertiesAreSourceTags ==
    OneDownloaded => download_result.features[1].properties = SourceTags

\* every source tag of a converted element is among the feature's properties
C17_SourceTagsKept ==
    /\ OneDownloaded
    /\ SourceTags # {}
    /\ SourceTags \subseteq download_result.features[1].properties

-----------------------------------------------------------------------------
(* Properties of the relation branch.                                       *)

\* the call converts one relation, and it raises nothing
OneRelationConverted ==
    /\ OneElement
    /\ TheElement.type = "relation"
    /\ ~Raised(osm_result)

\* the relation's type tag is multipolygon or boundary
AreaRelationType ==
    \E kv \in TheTags : kv[1] = "type" /\ kv[2] \in {"multipolygon", "boundary"}

\* the members that role partitioning takes for outer rings: ways with a
\* non-empty geometry whose role is not 'inner'
OuterRings ==
    IF "members" \notin DOMAIN TheElement THEN {}
    ELSE {m \in DOMAIN TheElement.members :
             /\ TheElement.members[m].type = "way"
             /\ "geometry" \in DOMAIN TheElement.members[m]
             /\ TheElement.members[m].geometry # <<>>
             /\ TheElement.members[m].role # "inner"}

\* C20: a relation produces a feature exactly when its type tag is
\* multipolygon or boundary and, after role partitioning, it has at least one
\* outer ring; a relation of another type, without a type tag, without members
\* or with no outer ring produces no feature.
C20_RelationFeatureIff ==
    OneRelationConverted =>
        /\ Len(osm_result.features) <= 1
        /\ Len(osm_result.features) = 1 <=> (AreaRelationType /\ OuterRings # {})

\* a boundary relation whose only outer ring has the empty role produced a
\* feature
C20_EmptyRoleIsOuter ==
    /\ OneRelationConverted
    /\ AreaRelationType
    /\ Cardinality(OuterRings) = 1
    /\ \A m \in OuterRings : TheElement.members[m].role = ""
    /\ Len(osm_result.features) = 1

\* a multipolygon relation whose members are all inner rings produced no feature
C20_NoOuterNoFeature ==
    /\ OneRelationConverted
    /\ AreaRelationType
    /\ "members" \in DOMAIN TheElement /\ Len(TheElement.members) > 0
    /\ \A m \in DOMAIN TheElement.members :
           TheElement.members[m] = Member("inner", SmallRing)
    /\ OuterRings = {}
    /\ osm_result.features = <<>>


\* the call converts one multipolygon or boundary relation all of whose
\* members are ways with a non-empty geometry of points, with or without a role
OneRelationOfWays ==
    /\ OneElement
    /\ TheElement.type = "relation"
    /\ "members" \in DOMAIN TheElement
    /\ AreaRelationType
    /\ \A m \in DOMAIN TheElement.members :
           /\ TheElement.members[m].type = "way"
           /\ "geometry" \in DOMAIN TheElement.members[m]
           /\ PointList(TheElement.members[m].geometry)

\* the members whose role is not 'inner' (no role at all included), in member
\* order, and their coordinate lists
NotInnerMembers ==
    SelectSeq(TheElement.members,
              LAMBDA member : "role" \notin DOMAIN member \/ member.role # "inner")
NotInnerCoordinates ==
    [k \in DOMAIN NotInnerMembers |-> CoordinatesOf(NotInnerMembers[k].geometry)]

\* C21: every member way with non-empty geometry whose role is neither 'outer'
\* nor 'inner', the empty role and a member with no role at all included, is
\* put in the outer ring list in member order, and no such member makes the
\* conversion fail.
C21_OtherRoleIsOuter ==
    OneRelationOfWays =>
        /\ ~Raised(osm_result)
        /\ ~Raised(CollectWays(TheElement.members, Ways(<<>>, <<>>)))
        /\ CollectWays(TheElement.members, Ways(<<>>, <<>>)).outer_ways
               = NotInnerCoordinates

\* C22: a multipolygon or boundary relation with n >= 2 outer rings is one
\* MultiPolygon feature of exactly n parts in member order, each part one
\* closed outer ring; no inner ring of the relation is in any part.
C22_OnePartPerOuterRing ==
    (OneRelation /\ Len(OuterMembers) >= 2) =>
        /\ ~Raised(osm_result)
        /\ Len(osm_result.features) = 1
        /\ osm_result.features[1].geometry.type = "MultiPolygon"
        /\ LET parts == osm_result.features[1].geometry.coordinates
           IN  /\ Len(parts) = Len(OuterMembers)
               /\ \A k \in DOMAIN parts :
                      /\ Len(parts[k]) = 1
                      /\ ClosedFrom(parts[k][1], OuterMembers[k])
               /\ \A k \in DOMAIN parts : \A r \in DOMAIN parts[k] :
                      \A j \in DOMAIN InnerMembers :
                          ~ClosedFrom(parts[k][r], InnerMembers[j])

\* a relation with two outer rings, one of them unclosed, and an inner ring
\* became a MultiPolygon of two parts
C22_TwoOutersAndAHole ==
    /\ OneRelation /\ Len(OuterMembers) = 2 /\ Len(InnerMembers) = 1
    /\ OuterMembers[2].geometry = SmallOpen
    /\ ~Raised(osm_result)
    /\ osm_result.features[1].geometry.type = "MultiPolygon"
    /\ Len(osm_result.features[1].geometry.coordinates) = 2

-----------------------------------------------------------------------------
(* Properties of the node branch.                                           *)

\* the call converts one node
OneNode == OneElement /\ TheElement.type = "node"

\* the node has lat, lon and at least one tag
TaggedNode ==
    /\ "lat" \in DOMAIN TheElement
    /\ "lon" \in DOMAIN TheElement
    /\ TheTags # {}

\* C23: a node is a Point feature at (lon, lat) exactly when point inclusion
\* is enabled for the pass and the node has lat, lon and at least one tag; with
\* inclusion disabled, or for an untagged node, there is no feature.
C23_NodePointIff ==
    OneNode =>
        /\ ~Raised(osm_result)
        /\ IF osm_call.include_points /\ TaggedNode
           THEN osm_result.features =
                    <<GeoFeature("Point", <<TheElement.lon, TheElement.lat>>,
                                 TheTags)>>
           ELSE osm_result.features = <<>>

\* a tagged node became a Point with inclusion enabled
C23_TaggedNodeIncluded ==
    /\ OneNode /\ TaggedNode /\ osm_call.include_points
    /\ ~Raised(osm_result)
    /\ Len(osm_result.features) = 1
    /\ osm_result.features[1].geometry.type = "Point"

\* a tagged node gave no feature with inclusion disabled
C23_TaggedNodeExcluded ==
    /\ OneNode /\ TaggedNode /\ ~osm_call.include_points
    /\ osm_result = FeatureCollection(<<>>)

-----------------------------------------------------------------------------
(* Properties of the label points.                                          *)

\* the features of the call that have a non-empty name, in input order
NamedFeatures ==
    SelectSeq(labels_call.features,
              LAMBDA feature : \E kv \in feature.properties :
                                   kv[1] = "name" /\ kv[2] # "")

\* the mean of the vertices of a ring, the closing vertex counted
RingMean(ring) ==
    <<VertexAverage([i \in DOMAIN ring |-> <<R(ring[i][1]), R(ring[i][2])>>], 1),
      VertexAverage([i \in DOMAIN ring |-> <<R(ring[i][1]), R(ring[i][2])>>], 2)>>

\* the representative point of a geometry, by its kind
RepresentativePoint(geometry) ==
    CASE geometry.type = "Point" -> geometry.coordinates
      [] geometry.type = "LineString" ->
             geometry.coordinates[(Len(geometry.coordinates) \div 2) + 1]
      [] geometry.type = "Polygon" -> RingMean(geometry.coordinates[1])
      [] geometry.type = "MultiPolygon" -> RingMean(geometry.coordinates[1][1])

\* C24: the label points are, in input order, exactly one Point per input
\* feature with a non-empty name and none for the others, at the feature itself
\* for a Point, at the coordinate of index len // 2 for a LineString, at the
\* mean of all vertices of ring 0 (closing vertex included) for a Polygon, and
\* at that mean over ring 0 of the first part for a MultiPolygon.
C24_OneLabelPerNamedFeature ==
    labels_call # NoValue =>
        /\ Len(labels_made.features) = Len(NamedFeatures)
        /\ \A k \in DOMAIN NamedFeatures :
               /\ labels_made.features[k].type = "Feature"
               /\ labels_made.features[k].geometry.type = "Point"
               /\ labels_made.features[k].geometry.coordinates
                      = RepresentativePoint(NamedFeatures[k].geometry)

\* a call with a named point, an unnamed polygon and a named MultiPolygon gave
\* two label points
C24_MixedKindsLabelled ==
    /\ labels_call # NoValue
    /\ Len(labels_call.features) = 3
    /\ labels_call.features[1].geometry.type = "Point"
    /\ labels_call.features[2].geometry.type = "Polygon"
    /\ labels_call.features[2] \notin {NamedFeatures[k] : k \in DOMAIN NamedFeatures}
    /\ labels_call.features[3].geometry.type = "MultiPolygon"
    /\ Len(labels_made.features) = 2
    /\ labels_made.features[2].geometry.coordinates = <<<<7, 2>>, <<13, 4>>>>

-----------------------------------------------------------------------------
(* Properties of the projector for a degenerate bbox.                       *)

\* the instance under observation was asked for with a bbox whose longitude
\* range, latitude range or both are zero
ZeroLonRange == layout0 # NoValue /\ layout0.args[1][2] = layout0.args[1][4]
ZeroLatRange == layout0 # NoValue /\ layout0.args[1][1] = layout0.args[1][3]

\* C25: with a bbox whose lon_range, lat_range or both are zero the projector
\* is constructed for every paper size and orientation without a division by
\* zero, and a projection returns the axis offset on each degenerate axis.
C25_DegenerateBBoxProjects ==
    (ZeroLonRange \/ ZeroLatRange) =>
        /\ IsExporter(layout0.attrs)
        /\ last # NoValue =>
               /\ ZeroLonRange => last[3] = self.x_offset
               /\ ZeroLatRange => last[4] = self.y_offset

-----------------------------------------------------------------------------
(* Properties of the layer groups and the polygon paths.                    *)

\* the valid layers of the call, in input order
ValidLayerSeq == SelectSeq(layers, LAMBDA layer : layer.valid)

\* the geometry of the feature at hand as it is handed to add_feature_to_svg
GeometryAtHand ==
    IF layers[li].crs # WGS84
    THEN TransformGeometry(layers[li].features[fi].geometry)
    ELSE layers[li].features[fi].geometry

\* the parts of a polygon geometry, each a sequence of rings
PartsOf(geometry) ==
    IF geometry.type = "MultiPolygon" THEN geometry.coordinates
    ELSE <<geometry.coordinates>>

\* the paths of a part of r rings: the filled outer path with the resolved
\* style, then r - 1 hole paths with white fill and no stroke
OuterPath(ring, style) ==
    [tag |-> "path", d |-> ProjectPoints(self, ring).out, closed |-> TRUE,
     fill |-> style.fill, fill_opacity |-> style.fill_opacity,
     stroke |-> style.stroke, stroke_width |-> style.stroke_width,
     stroke_opacity |-> style.stroke_opacity]
HolePath(ring) ==
    [tag |-> "path", d |-> ProjectPoints(self, ring).out, closed |-> TRUE,
     fill |-> "white", stroke |-> "none"]
PartPaths(part, style) ==
    [r \in DOMAIN part |->
        IF r = 1 THEN OuterPath(part[r], style) ELSE HolePath(part[r])]
RECURSIVE PathsOfParts(_, _)
PathsOfParts(parts, style) ==
    IF parts = <<>> THEN <<>>
    ELSE PartPaths(Head(parts), style) \o PathsOfParts(Tail(parts), style)

\* a step of the feature loop that handles a polygon geometry all of whose
\* parts have at least one ring and a non-empty outer ring
PolygonStep ==
    /\ pc = "layers" /\ li <= Len(layers) /\ fi >= 1
    /\ fi <= Len(layers[li].features)
    /\ fi' = fi + 1
    /\ GeometryAtHand.type \in {"Polygon", "MultiPolygon"}
    /\ \A q \in DOMAIN PartsOf(GeometryAtHand) :
           /\ PartsOf(GeometryAtHand)[q] # <<>>
           /\ PartsOf(GeometryAtHand)[q][1] # <<>>

\* the layer groups of the document are those of the valid layers, in order
GroupPerLayer ==
    pc = "written" =>
        /\ Len(output_file.features) = Len(ValidLayerSeq)
        /\ \A g \in DOMAIN ValidLayerSeq :
               /\ output_file.features[g].id = LayerId(ValidLayerSeq[g].name)
               /\ output_file.features[g].class = "layer"

-----------------------------------------------------------------------------
(* Properties of point inclusion under the shipped configuration.           *)

\* the response of the pass holds a node with lat, lon and at least one tag
TaggedNodeInResponse ==
    /\ download_call # NoValue
    /\ download_call.data # None
    /\ \E i \in DOMAIN download_call.data.elements :
           /\ download_call.data.elements[i].type = "node"
           /\ "lat" \in DOMAIN download_call.data.elements[i]
           /\ "lon" \in DOMAIN download_call.data.elements[i]
           /\ GetTags(download_call.data.elements[i]) # {}

\* download_feature for the category makes a Point feature of that response
PointMadeFor(feature_config) ==
    \E geojson \in {download_feature(feature_config, download_call.data)} :
        /\ ~Raised(geojson)
        /\ geojson # None
        /\ \E k \in DOMAIN geojson.features :
               geojson.features[k].geometry.type = "Point"

\* no pass of any shipped category made a Point feature
NoPointDownloaded ==
    (download_call # NoValue /\ ~Raised(download_result)
                             /\ download_result # None) =>
        \A k \in DOMAIN download_result.features :
            download_result.features[k].geometry.type # "Point"

\* C29: point inclusion is reachable from the shipped configuration: for a
\* response that holds a tagged node, at least one category of
\* get_all_features makes download_feature convert it into a Point feature.
C29_PointInclusionReachable ==
    TaggedNodeInResponse => \E feature_config \in FeatureConfigs :
                                PointMadeFor(feature_config)

\* C27: at most one DownloadWorker is running at any time: between the start
\* of a worker by start_download and the handling of its finished signal, no
\* second worker is started.
RunningWorkers == {worker \in DOMAIN workers : ~workers[worker].handled}
C27_AtMostOneWorkerRunning == Cardinality(RunningWorkers) <= 1

\* C30: every layer a download added to the project, and that is still in the
\* project, is tracked in downloaded_layers.
C30_ProjectLayersTracked ==
    project_layers \subseteq {downloaded_layers[i] : i \in DOMAIN downloaded_layers}

\* C28: a run of a DownloadWorker attempts every selected category in selection
\* order and then emits finished exactly once.  A category whose download
\* raises emits error and the run goes on; a category with features emits its
\* layer, followed by its label layer exactly when create_labels is set and
\* there are labels; and after a download is started its finished signal is
\* eventually handled, with the download and search buttons enabled.
AttemptSignals(worker, feature_config, geojson) ==
    IF Raised(geojson)
    THEN <<[signal |-> "error", worker |-> worker, name |-> feature_config.name]>>
    ELSE IF geojson = None THEN <<>>
    ELSE IF geojson.features = <<>> THEN <<>>
    ELSE <<[signal |-> "layer_ready", worker |-> worker,
            name |-> feature_config.name]>>
         \o IF /\ feature_config.create_labels
               /\ \E i \in DOMAIN geojson.features : HasName(geojson.features[i])
            THEN <<[signal |-> "layer_ready", worker |-> worker,
                    name |-> feature_config.name \o S_labels]>>
            ELSE <<>>
RECURSIVE RunSignals(_, _, _)
RunSignals(worker, selected_features, responses) ==
    IF responses = <<>> THEN <<>>
    ELSE AttemptSignals(worker, Head(selected_features),
                        download_feature(Head(selected_features), Head(responses)))
         \o RunSignals(worker, Tail(selected_features), Tail(responses))
LoopEnded(thread) == thread.k > Len(thread.selected_features)
FinishedEmitted(thread) == thread.k = Len(thread.selected_features) + 2
RunAsClaimed(worker) ==
    LET thread == workers[worker]
    IN  /\ Len(thread.responses) = IF LoopEnded(thread)
                                   THEN Len(thread.selected_features)
                                   ELSE thread.k - 1
        /\ thread.emitted =
               RunSignals(worker, thread.selected_features, thread.responses)
               \o IF FinishedEmitted(thread)
                  THEN <<[signal |-> "finished", worker |-> worker, name |-> <<>>]>>
                  ELSE <<>>
        /\ thread.handled => FinishedEmitted(thread)
RunStarted(worker) == worker \in DOMAIN workers /\ ~workers[worker].handled
RunCompleted(worker) ==
    /\ worker \in DOMAIN workers
    /\ workers[worker].handled
    /\ download_btn
    /\ search_btn
=============================================================================
